---------------------------- MODULE Spec2Model ----------------------------
(***************************************************************************)
(* NeuMemo: the ingestion -> dedup -> budget -> classify -> reconcile      *)
(* pipeline of the extension's service worker.                             *)
(*                                                                         *)
(*   SpecRL      the RateLimiter of the lite model (unnamed/part_005)      *)
(*   SpecBudget  the request budgeter of summarizeTabs, as a function of   *)
(*               its input list and of the budget maxTokens                *)
(*   SpecRun     one run of collectAndSummarizeAllTabs: history read,      *)
(*               merge, summarizeTabs (budget, classifier call, parse),    *)
(*               saveAISummaries                                           *)
(*   SpecExcl    a run under an exclusion rule                             *)
(*   SpecPool    processWithConcurrency, the collector's worker pool       *)
(*   SpecWriters saveAISummaries called by overlapping runs                *)
(*   SpecTwice   a run, then at once a second run                          *)
(*   SpecLite    summarizeTabsLiteBatch, the pre-summarizer                *)
(*   SpecSearch  searchRelevantTabs, the chunked search                    *)
(*   SpecInject  injectAndGetContent of one tab (SpecInjectFair: every     *)
(*               awaited call settles)                                     *)
(*   SpecTitles  the title of one url from the stores to the put           *)
(*   SpecFresh   a first run over empty stores                             *)
(*   SpecReq     the calls of summarizeChunk before its request            *)
(*   SpecOverlap two runs and the global excludedDomains                   *)
(*   SpecRejects the records of the store rejected_tabs                    *)
(*   SpecRLFair  the RateLimiter under the scheduling of the event loop    *)
(*   SpecPre     the pre-summarization step of a run and the merge         *)
(*                                                                         *)
(* The repository holds two versions of summarizeTabs: src/firebase_ai.js  *)
(* and the snapshot unnamed/part_005.  The variable impl says which one a  *)
(* behaviour runs; both are reachable.                                     *)
(***************************************************************************)
EXTENDS Integers, Sequences, FiniteSets, TLC

VARIABLES
    \* ---- RateLimiter (part_005:10-38)
    now,          \* Date.now(), in units of the model
    timestamps,   \* this.timestamps: the reservations, oldest first
    mutex,        \* this._mutex: the chain of acquire callbacks, oldest first
    acqState,     \* per caller: "idle", "queued", "sleeping"
    wakeAt,       \* per caller: when its sleep(waitMs) elapses
    granted,      \* history: the time of every reservation ever made
    \* ---- summarizeTabs, the request budgeter
    impl,         \* "firebase_ai" (src/firebase_ai.js) or "part_005"
    maxTokens,    \* the budget B of summarizeTabs(tabs, maxTokens)
    bTabs,        \* the input list: history tabs, then current tabs
    built,        \* the assembled prompt under maxTokens
    prevBuilt,    \* <<the prompt assembled under maxTokens + 1>>, or <<>>
    bPhase,       \* "input", "built", "sent", "skipped"
    \* ---- the catalog (IndexedDB NeuMemoDB)
    tabsStore,      \* store "tabs": records [url, sessionId, title, summary]
    sessionsStore,  \* store "sessions": records [id, name], name unique
    nextSessionId,  \* the autoIncrement key generator of "sessions"
    \* ---- one run of collectAndSummarizeAllTabs
    pc,             \* where the run is
    openTabs,       \* the urls of the injectable tabs
    validTabs,      \* the tabs whose content was collected
    historicalTabs, \* fetchHistoricalTabsFromDB()
    combinedTabs,   \* the merged working set
    offered,        \* the urls whose block is in the prompt
    attempt,        \* i of callWithRetry
    callLog,        \* the requests sent and what came back, in order
    waits,          \* the backoff sleeps of callWithRetry, in ms
    outcome,        \* how summarizeTabs ended
    aiResults,      \* what summarizeTabs returned
    tabTitles,      \* titles: the urls it has, with their title
    sessions,       \* saveAISummaries: the cache name -> id (0: none)
    resultIdx,      \* saveAISummaries: the index of the result at hand
    sessionId,      \* saveAISummaries: the id resolved for that result
    notified,       \* the message sent to the UI: "none", "done", "failed"
    pre,            \* history: the catalog when the run started
    deleted,        \* history: the urls the run deleted from "tabs"
    excludedStore,  \* store "excluded_urls": the domains, each a list of labels
    excludedDomains,\* the list loadExcludedDomains() left in memory
    reportedUrl,    \* per open tab: the window.location.href its page reports
    injectableTabs, \* the tab urls that passed the filter of the run
    fetchLog,       \* history: per injectable tab "ok", "lateOk" or "failed"
    pendingRejects, \* the saveRejectedTab(url) calls that have not finished
    rejectedStore,  \* store "rejected_tabs": the urls that have a record
    rejectedExists, \* whether the database has the store "rejected_tabs"
    dbVersion,      \* the version of the database NeuMemoDB
    \* ---- processWithConcurrency (background.js:120-132)
    nItems,         \* items.length
    concurrency,    \* the limit passed in
    index,          \* the shared cursor
    workers,        \* per worker: [st: "new", "fetching", "done"; cur: its item]
    results,        \* results[i]: "empty", "doc" or "null"
    poolPhase,      \* "mapping", "awaiting" (Promise.all), "returned"
    fetchCount,     \* history: per item, the calls of mapper(items[i], i)
    storedFrom,     \* history: per position of results, the items whose
                    \* result was assigned to it
    \* ---- concurrent saveAISummaries calls over the same stores
    wPc,            \* per writer: where its saveAISummaries is
    wResults,       \* per writer: its aiResults
    wSessions,      \* per writer: its cache sessions (name -> id, 0: none)
    wIdx,           \* per writer: the index of the result at hand
    wId,            \* per writer: the id resolved for that result
    wResolved,      \* history, per writer: the [name, id] pairs it resolved
    \* ---- a run after a run
    runNo,          \* 1, 2: which run of collectAndSummarizeAllTabs this is
    first,          \* history: what the first run did and left (<<>>: running)
    \* ---- summarizeTabsLiteBatch
    liteN,          \* tabs.length; the tabs are 1..liteN
    litePhase,      \* "start", "single", "mapping", "returned"
    liteIndex,      \* mapWithConcurrency: index
    liteWorkers,    \* mapWithConcurrency: per worker, its state and chunk
    chunkResults,   \* mapWithConcurrency: results, per chunk the tabs summarized
    liteEnds,       \* history: per chunk, how its request ended
    liteOut,        \* the tabs that have a summary in the returned array
    \* ---- searchRelevantTabs
    sN,             \* tabs.length
    sK,             \* topK
    sPhase,         \* "start", "single", "mapping", "returned"
    sIndex,         \* mapWithConcurrency: index
    sWorkers,       \* mapWithConcurrency: per worker, its state and chunk
    sResults,       \* mapWithConcurrency: results, per chunk its candidates
    sEnds,          \* history: per chunk, how its request ended
    sOut,           \* the returned array
    \* ---- injectAndGetContent(tab)
    iPc,            \* "start", "update", "reload", "waitReady", "inject", "fetch", "returned"
    iTab,           \* the tab's flags [frozen, discarded]
    iCalls,         \* history: the calls made and how each ended
    iResult,        \* "none", "content", "null"
    \* ---- the title of one url, from the stores to the put
    tPc,            \* "history", "current", "combined", "put", "stored"
    tStored,        \* <<title>> of the stored tab of the url, or <<>>
    tFresh,         \* the titles of the fetched tabs that report the url
    tBest,          \* bestTitleByUrl.get(url): <<title>>, or <<>> when not set
    tIdx,           \* the index into tFresh
    tPersisted,     \* <<the title put>>, or <<>>
    \* ---- the requests of summarizeTabsLiteBatch to the lite model
    qImpl,          \* which summarizeTabsLiteBatch runs: "firebase_ai", "part_005"
    qN,             \* tabs.length
    qPhase,         \* "start", "mapping", "returned"
    qIndex,         \* mapWithConcurrency: index
    qWorkers,       \* per worker [st, cur]: its place in summarizeChunk
    qLog,           \* history: the calls made, [op, chunk], in order
    \* ---- two runs of collectAndSummarizeAllTabs and the exclusion rules
    oStore,         \* the domains in the store excluded_urls
    oDomains,       \* the global excludedDomains of background.js
    oPc,            \* per run: "idle", "loading", "listing", "fetching",
                    \* "saving", "ended"
    oLoaded,        \* history: per run, <<the list its own load assigned>>
    oUsed,          \* history: per run, the lists its checks have read
    \* ---- the records of the store rejected_tabs
    jClock,         \* the time new Date() gives
    jStore,         \* the records in the store, one per key (url)
    jWritten,       \* history: every record saveRejectedTab has put
    \* ---- the pre-summarization step of a run
    pPc,            \* "start", "summarized", "merged"
    pValid,         \* validTabs
    pHist,          \* historicalTabs
    pLite,          \* how summarizeTabsLiteBatch ended: [kind, items]
    pCurrent,       \* summarizedCurrentTabs
    pCombined       \* combinedTabs

rlVars == <<now, timestamps, mutex, acqState, wakeAt, granted>>

bgVars == <<bTabs, built, prevBuilt, bPhase>>

dbVars == <<tabsStore, sessionsStore, nextSessionId>>

fetchVars == <<excludedStore, excludedDomains, reportedUrl, injectableTabs, fetchLog,
               pendingRejects, rejectedStore, rejectedExists, dbVersion>>

runVars == <<pc, openTabs, validTabs, historicalTabs, combinedTabs, offered,
             attempt, callLog, waits, outcome, aiResults, tabTitles, sessions,
             resultIdx, sessionId, notified, pre, deleted, fetchVars>>

poolVars == <<nItems, concurrency, index, workers, results, poolPhase, fetchCount,
              storedFrom>>

writerVars == <<wPc, wResults, wSessions, wIdx, wId, wResolved>>

\* The variables of the specifications of the parts.
twiceVars == <<runNo, first>>

liteVars == <<liteN, litePhase, liteIndex, liteWorkers, chunkResults, liteEnds, liteOut>>

searchVars == <<sN, sK, sPhase, sIndex, sWorkers, sResults, sEnds, sOut>>

\* The variables of the remaining parts.
injectVars == <<iPc, iTab, iCalls, iResult>>

titleVars == <<tPc, tStored, tFresh, tBest, tIdx, tPersisted>>

reqVars == <<qImpl, qN, qPhase, qIndex, qWorkers, qLog>>

overlapVars == <<oStore, oDomains, oPc, oLoaded, oUsed>>

rejectVars == <<jClock, jStore, jWritten>>

preVars == <<pPc, pValid, pHist, pLite, pCurrent, pCombined>>

moreVars == <<reqVars, overlapVars, rejectVars, preVars>>

laterVars == <<searchVars, injectVars, titleVars, moreVars>>

restVars == <<poolVars, writerVars, twiceVars, liteVars, laterVars>>

vars == <<now, timestamps, mutex, acqState, wakeAt, granted,
          impl, maxTokens, bTabs, built, prevBuilt, bPhase,
          tabsStore, sessionsStore, nextSessionId,
          pc, openTabs, validTabs, historicalTabs, combinedTabs, offered,
          attempt, callLog, waits, outcome, aiResults, tabTitles, sessions,
          resultIdx, sessionId, notified, pre, deleted, fetchVars, restVars>>

----------------------------------------------------------------------------
(***************************************************************************)
(* Helpers                                                                 *)
(***************************************************************************)
Range(s) == {s[i] : i \in DOMAIN s}

Min(a, b) == IF a <= b THEN a ELSE b

Max(a, b) == IF a >= b THEN a ELSE b

----------------------------------------------------------------------------
\* The parts of the state a specification does not use stay at these values.
EmptyPrompt == [total |-> 0, count |-> 0, included |-> <<>>, cuts |-> <<>>, ok |-> FALSE]

\* const DB_VERSION = 6
DB_VERSION == 6

IdleBudget ==
    /\ impl = "part_005"
    /\ maxTokens = 0
    /\ bTabs = <<>>
    /\ built = EmptyPrompt
    /\ prevBuilt = <<>>
    /\ bPhase = "input"

IdlePool ==
    /\ nItems = 0
    /\ concurrency = 1
    /\ index = 0
    /\ workers = <<>>
    /\ results = <<>>
    /\ poolPhase = "mapping"
    /\ fetchCount = <<>>
    /\ storedFrom = <<>>

IdleWriters ==
    /\ wPc = <<>>
    /\ wResults = <<>>
    /\ wSessions = <<>>
    /\ wIdx = <<>>
    /\ wId = <<>>
    /\ wResolved = <<>>

\* The parts a specification of the pipeline does not run.
IdleTwice ==
    /\ runNo = 1
    /\ first = <<>>

IdleLite ==
    /\ liteN = 0
    /\ litePhase = "start"
    /\ liteIndex = 0
    /\ liteWorkers = <<>>
    /\ chunkResults = <<>>
    /\ liteEnds = <<>>
    /\ liteOut = {}

IdleSearch ==
    /\ sN = 0
    /\ sK = 0
    /\ sPhase = "start"
    /\ sIndex = 0
    /\ sWorkers = <<>>
    /\ sResults = <<>>
    /\ sEnds = <<>>
    /\ sOut = <<>>

IdleInject ==
    /\ iPc = "start"
    /\ iTab = [frozen |-> FALSE, discarded |-> FALSE]
    /\ iCalls = <<>>
    /\ iResult = "none"

IdleTitles ==
    /\ tPc = "history"
    /\ tStored = <<>>
    /\ tFresh = <<>>
    /\ tBest = <<>>
    /\ tIdx = 1
    /\ tPersisted = <<>>

IdleReq ==
    /\ qImpl = "part_005"
    /\ qN = 0
    /\ qPhase = "start"
    /\ qIndex = 0
    /\ qWorkers = <<>>
    /\ qLog = <<>>

IdleOverlap ==
    /\ oStore = {}
    /\ oDomains = {}
    /\ oPc = <<>>
    /\ oLoaded = <<>>
    /\ oUsed = <<>>

IdleRejects ==
    /\ jClock = 0
    /\ jStore = {}
    /\ jWritten = {}

IdlePre ==
    /\ pPc = "start"
    /\ pValid = <<>>
    /\ pHist = <<>>
    /\ pLite = [kind |-> "none", items |-> <<>>]
    /\ pCurrent = <<>>
    /\ pCombined = <<>>

IdleMore == IdleReq /\ IdleOverlap /\ IdleRejects /\ IdlePre

IdleLater == IdleSearch /\ IdleInject /\ IdleTitles /\ IdleMore

IdleRest == IdlePool /\ IdleWriters /\ IdleTwice /\ IdleLite /\ IdleLater

Names == {"A", "B", "C", "Uncategorized"}

IdleRun ==
    /\ tabsStore = {}
    /\ sessionsStore = {}
    /\ nextSessionId = 1
    /\ pc = "idle"
    /\ openTabs = {}
    /\ validTabs = <<>>
    /\ historicalTabs = <<>>
    /\ combinedTabs = <<>>
    /\ offered = <<>>
    /\ attempt = 0
    /\ callLog = <<>>
    /\ waits = <<>>
    /\ outcome = "none"
    /\ aiResults = <<>>
    /\ tabTitles = {}
    /\ sessions = [n \in Names |-> 0]
    /\ resultIdx = 1
    /\ sessionId = 0
    /\ notified = "none"
    /\ pre = [tabs |-> {}, sessions |-> {}]
    /\ deleted = {}
    /\ excludedStore = {}
    /\ excludedDomains = {}
    /\ reportedUrl = <<>>
    /\ injectableTabs = {}
    /\ fetchLog = <<>>
    /\ pendingRejects = {}
    /\ rejectedStore = {}
    /\ rejectedExists = FALSE
    /\ dbVersion = DB_VERSION

----------------------------------------------------------------------------
(***************************************************************************)
(* RateLimiter                                                             *)
(***************************************************************************)
NumCallers == 3

MaxTime == 7

\* new RateLimiter(rpm, windowMs): config.liteSummary.rpm requests per
\* rolling window of 60_000 ms, scaled down.
rpm == 2

windowMs == 3

Callers == 1..NumCallers

\* this.timestamps.filter((t) => now - t < this.windowMs)
Evict(ts, t) == SelectSeq(ts, LAMBDA x : t - x < windowMs)

HasCapacity_OffByOne(ts) == Len(ts) <= rpm

\* if (this.timestamps.length < this.rpm)
HasCapacity(ts) == Len(ts) < rpm

\* const waitMs = this.windowMs - (now - this.timestamps[0])
WaitMs(ts, t) == windowMs - (t - ts[1])

MayRun_NoChain(c) == c \in Range(mutex)

\* this._mutex = this._mutex.then(async () => {...}): the callback of a
\* caller starts once the promise of the caller before it has resolved.
MayRun(c) == mutex # <<>> /\ Head(mutex) = c

\* One pass of the while (true) body.  JavaScript runs it to completion:
\* there is no await between Date.now() and the push or the sleep.
LoopBody(c) ==
    LET ts == Evict(timestamps, now) IN
    IF HasCapacity(ts)
    THEN /\ timestamps' = Append(ts, now)
         /\ granted' = Append(granted, now)
         /\ acqState' = [acqState EXCEPT ![c] = "idle"]
         /\ mutex' = SelectSeq(mutex, LAMBDA x : x # c)
         /\ UNCHANGED wakeAt
    ELSE /\ timestamps' = ts
         /\ acqState' = [acqState EXCEPT ![c] = "sleeping"]
         /\ wakeAt' = [wakeAt EXCEPT ![c] = now + Max(WaitMs(ts, now), 0)]
         /\ UNCHANGED <<granted, mutex>>

\* acquire(): the callback is chained behind the current tail.
Acquire(c) ==
    /\ acqState[c] = "idle"
    /\ acqState' = [acqState EXCEPT ![c] = "queued"]
    /\ mutex' = Append(mutex, c)
    /\ UNCHANGED <<now, timestamps, wakeAt, granted>>
    /\ UNCHANGED <<impl, maxTokens, bgVars, dbVars, runVars, restVars>>

\* The callback of c starts: first pass of the loop.
EnterLoop(c) ==
    /\ acqState[c] = "queued"
    /\ MayRun(c)
    /\ LoopBody(c)
    /\ UNCHANGED now
    /\ UNCHANGED <<impl, maxTokens, bgVars, dbVars, runVars, restVars>>

\* sleep(waitMs) elapsed (a timer may fire late): next pass of the loop.
WakeUp(c) ==
    /\ acqState[c] = "sleeping"
    /\ now >= wakeAt[c]
    /\ LoopBody(c)
    /\ UNCHANGED now
    /\ UNCHANGED <<impl, maxTokens, bgVars, dbVars, runVars, restVars>>

Tick ==
    /\ now < MaxTime
    /\ now' = now + 1
    /\ UNCHANGED <<timestamps, mutex, acqState, wakeAt, granted>>
    /\ UNCHANGED <<impl, maxTokens, bgVars, dbVars, runVars, restVars>>

IdleRL ==
    /\ now = 0
    /\ timestamps = <<>>
    /\ mutex = <<>>
    /\ acqState = [c \in Callers |-> "idle"]
    /\ wakeAt = [c \in Callers |-> 0]
    /\ granted = <<>>

InitRL ==
    /\ IdleRL
    /\ IdleBudget
    /\ IdleRun
    /\ IdleRest

NextRL ==
    \/ \E c \in Callers : Acquire(c)
    \/ \E c \in Callers : EnterLoop(c)
    \/ \E c \in Callers : WakeUp(c)
    \/ Tick

SpecRL == InitRL /\ [][NextRL]_vars

\* C1: no half-open time interval [t, t + windowMs) contains more than rpm
\* granted acquisitions, whatever the interleaving of the acquire() calls.
C1_WindowCap ==
    \A i \in DOMAIN granted :
        Cardinality({j \in DOMAIN granted :
            granted[i] <= granted[j] /\ granted[j] < granted[i] + windowMs}) <= rpm

\* rpm + 1 grants were made, so the window filled and one caller had to wait
\* for the oldest reservation to expire.
C1_Witness ==
    /\ Len(granted) > rpm
    /\ \E i \in DOMAIN granted : granted[i] >= windowMs

InLoop(c) == acqState[c] = "sleeping"

\* C2: the acquire callbacks are serialized: at most one caller is inside the
\* evict-check-reserve loop at a time, it is the head of the chain, and the
\* reservations never exceed the cap.
C2_Serialized ==
    /\ \A c, d \in Callers : (InLoop(c) /\ InLoop(d)) => c = d
    /\ \A c \in Callers : InLoop(c) => Head(mutex) = c
    /\ Len(timestamps) <= rpm

\* One caller sleeps inside the loop while two others wait behind it.
C2_Witness ==
    \E c \in Callers :
        /\ InLoop(c)
        /\ Cardinality({d \in Callers : acqState[d] = "queued"}) >= 2

----------------------------------------------------------------------------
(***************************************************************************)
(* summarizeTabs: the request budgeter                                     *)
(*                                                                         *)
(* A tab is [url, source, wrapper, body, badCut, sessionId]:               *)
(*   wrapper   = encode(tabHeader).length + encode(tabFooter).length       *)
(*   body      = encode(normalizeContent(content)).length                  *)
(*   badCut    = a cut length at which decode(tokens.slice(0, cut)) does   *)
(*               not end on a character boundary, so that the block        *)
(*               re-encodes to one token more than wrapper + cut (0: none) *)
(*   sessionId = the numeric t.sessionId of a history tab (0: not a number)*)
(* Token counts are those of the cl100k_base encoding, scaled down.        *)
(***************************************************************************)
MaxBudget == 7

MaxHist == 1

MaxCur == 2

\* encoding.encode(promptTemplate).length
TemplateTokens == 1

\* encode("\nExisting saved tabs from IndexedDB (previous sessions):\n") and
\* encode("\nExisting sessions (immutable):\n")
HistoryHeaderTokens == 1

\* encode("\nNewly collected open tabs:\n")
NewHeaderTokens == 1

\* encode("\n<SESSION>\nID: ..\nName: ..\nKnown URLs (sample):\n- ")
SessionBlockTokens == 2

SampleUrls == 5

HistoryTabs(tabs) == SelectSeq(tabs, LAMBDA t : t.source = "history")

CurrentTabs(tabs) == SelectSeq(tabs, LAMBDA t : t.source # "history")

FinalTabTokens_SkewedCut(t, cut, len) ==
    t.wrapper + len + (IF cut /\ len = 1 THEN 1 ELSE 0)

\* const finalTabTokens = encoding.encode(finalTabString).length
FinalTabTokens(t, cut, len) ==
    t.wrapper + len + (IF cut /\ t.badCut > 0 /\ len = t.badCut THEN 1 ELSE 0)

FitsFinal_Unchecked(total, final, B) == TRUE

\* if (totalTokens + finalTabTokens > maxTokens) return false
FitsFinal(total, final, B) == total + final <= B

\* appendSectionHeader(text)
appendSectionHeader(st, cost, B) ==
    IF st.total + cost <= B
    THEN [st EXCEPT !.total = @ + cost, !.ok = TRUE]
    ELSE [st EXCEPT !.ok = FALSE]

SliceLength_OneShort(n, k) == IF k > 0 THEN k - 1 ELSE 0

\* contentTokens.slice(0, availableTokens).length, for an array of n tokens
SliceLength(n, k) == IF k < n THEN k ELSE n

\* appendTab(t); cuts is the history of the truncations: the tab, the
\* running total before it and the length its content was cut to
appendTab(st, t, B) ==
    IF st.total + t.wrapper > B
    THEN [st EXCEPT !.ok = FALSE]
    ELSE LET availableTokens == B - st.total - t.wrapper
             cut == t.body > availableTokens
             len == IF cut THEN SliceLength(t.body, availableTokens) ELSE t.body
             finalTabTokens == FinalTabTokens(t, cut, len)
         IN  IF ~FitsFinal(st.total, finalTabTokens, B)
             THEN [st EXCEPT !.ok = FALSE]
             ELSE [total |-> st.total + finalTabTokens,
                   count |-> st.count + 1,
                   included |-> Append(st.included, t.url),
                   cuts |-> IF cut
                            THEN Append(st.cuts, [url |-> t.url, before |-> st.total,
                                                  len |-> len])
                            ELSE st.cuts,
                   ok |-> TRUE]

RECURSIVE AppendTabsFrom(_, _, _, _)
AppendTabsFrom(st, tabs, i, B) ==
    IF i > Len(tabs) THEN st
    ELSE LET r == appendTab(st, tabs[i], B)
         IN  IF r.ok THEN AppendTabsFrom(r, tabs, i + 1, B) ELSE st

RECURSIVE AppendTabs_SkipAhead(_, _, _, _)
AppendTabs_SkipAhead(st, tabs, i, B) ==
    IF i > Len(tabs) THEN st
    ELSE LET r == appendTab(st, tabs[i], B)
         IN  AppendTabs_SkipAhead(IF r.ok THEN r ELSE st, tabs, i + 1, B)

\* for (const t of tabs) { if (!appendTab(t)) break; }
AppendTabs(st, tabs, i, B) == AppendTabsFrom(st, tabs, i, B)

\* The section of one kind of tab: its header, then its tabs.
AppendSection(st, tabs, headerCost, B) ==
    IF Len(tabs) = 0 THEN st
    ELSE LET h == appendSectionHeader(st, headerCost, B)
         IN  IF h.ok THEN AppendTabs(h, tabs, 1, B) ELSE st

\* part_005: sessionsById, the ids in the order of their first history tab.
RECURSIVE SessionIds(_, _)
SessionIds(hist, i) ==
    IF i > Len(hist) THEN <<>>
    ELSE LET rest == SessionIds(hist, i + 1)
             sid == hist[i].sessionId
         IN  IF sid = 0 THEN rest
             ELSE <<sid>> \o SelectSeq(rest, LAMBDA x : x # sid)

\* encode(block): the session's id and name, and up to 5 sample URLs.
SessionBlockCost(hist, sid) ==
    SessionBlockTokens
    + Min(SampleUrls, Cardinality({i \in DOMAIN hist : hist[i].sessionId = sid}))

RECURSIVE AppendSessions(_, _, _, _, _)
AppendSessions(st, hist, sids, i, B) ==
    IF i > Len(sids) THEN st
    ELSE LET cost == SessionBlockCost(hist, sids[i])
         IN  IF st.total + cost <= B
             THEN AppendSessions([st EXCEPT !.total = @ + cost], hist, sids, i + 1, B)
             ELSE st

\* part_005:316-333, the catalog of existing sessions
AppendCatalog(st, hist, B) ==
    LET sids == SessionIds(hist, 1) IN
    IF Len(sids) = 0 THEN st
    ELSE LET h == appendSectionHeader(st, HistoryHeaderTokens, B)
         IN  IF h.ok THEN AppendSessions(h, hist, sids, 1, B) ELSE st

\* The prompt summarizeTabs(tabs, B) assembles: totalTokens, tabsInPrompt
\* and the urls whose block is in tabsInput.
BuildPrompt(im, tabs, B) ==
    LET st0 == [total |-> TemplateTokens, count |-> 0, included |-> <<>>, cuts |-> <<>>,
                  ok |-> TRUE]
        st1 == IF im = "firebase_ai"
               THEN AppendSection(st0, HistoryTabs(tabs), HistoryHeaderTokens, B)
               ELSE AppendCatalog(st0, HistoryTabs(tabs), B)
    IN  AppendSection(st1, CurrentTabs(tabs), NewHeaderTokens, B)

Impls == {"firebase_ai", "part_005"}

\* The kinds of tab the inputs are drawn from.
CurrentKinds ==
    { [source |-> "current", wrapper |-> 1, body |-> 0, badCut |-> 0, sessionId |-> 0],
      [source |-> "current", wrapper |-> 1, body |-> 2, badCut |-> 0, sessionId |-> 0],
      [source |-> "current", wrapper |-> 1, body |-> 2, badCut |-> 1, sessionId |-> 0],
      [source |-> "current", wrapper |-> 2, body |-> 1, badCut |-> 0, sessionId |-> 0] }

HistoryKinds ==
    { [source |-> "history", wrapper |-> 1, body |-> 1, badCut |-> 0, sessionId |-> 0],
      [source |-> "history", wrapper |-> 2, body |-> 2, badCut |-> 0, sessionId |-> 1],
      [source |-> "history", wrapper |-> 1, body |-> 2, badCut |-> 1, sessionId |-> 1],
      [source |-> "history", wrapper |-> 4, body |-> 3, badCut |-> 0, sessionId |-> 2] }

SeqsUpTo(S, n) == UNION {[1..k -> S] : k \in 0..n}

\* The tab at position i of the list gets the url i.
WithUrls(ks) ==
    [i \in DOMAIN ks |->
        [url |-> i, source |-> ks[i].source, wrapper |-> ks[i].wrapper,
         body |-> ks[i].body, badCut |-> ks[i].badCut, sessionId |-> ks[i].sessionId]]

InitBudget ==
    /\ IdleRL
    /\ impl \in Impls
    /\ maxTokens \in 0..MaxBudget
    /\ \E hs \in SeqsUpTo(HistoryKinds, MaxHist), cs \in SeqsUpTo(CurrentKinds, MaxCur) :
           bTabs = WithUrls(hs \o cs)
    /\ built = EmptyPrompt
    /\ prevBuilt = <<>>
    /\ bPhase = "input"
    /\ IdleRun
    /\ IdleRest

\* summarizeTabs up to the tabsInPrompt test.
Assemble ==
    /\ bPhase = "input"
    /\ built' = BuildPrompt(impl, bTabs, maxTokens)
    /\ bPhase' = "built"
    /\ UNCHANGED <<impl, maxTokens, bTabs, prevBuilt, rlVars, dbVars, runVars, restVars>>

\* if (tabsInPrompt === 0) return ...: no request is made.
SkipRequest ==
    /\ bPhase = "built"
    /\ built.count = 0
    /\ bPhase' = "skipped"
    /\ UNCHANGED <<impl, maxTokens, bTabs, built, prevBuilt, rlVars, dbVars, runVars, restVars>>

\* model.generateContent(request)
SendRequest ==
    /\ bPhase = "built"
    /\ built.count > 0
    /\ bPhase' = "sent"
    /\ UNCHANGED <<impl, maxTokens, bTabs, built, prevBuilt, rlVars, dbVars, runVars, restVars>>

\* The same list is assembled again under the budget reduced by one.
ReduceBudget ==
    /\ bPhase = "built"
    /\ maxTokens > 0
    /\ maxTokens' = maxTokens - 1
    /\ prevBuilt' = <<built>>
    /\ built' = BuildPrompt(impl, bTabs, maxTokens - 1)
    /\ UNCHANGED <<impl, bTabs, bPhase, rlVars, dbVars, runVars, restVars>>

NextBudget == Assemble \/ SkipRequest \/ SendRequest \/ ReduceBudget

SpecBudget == InitBudget /\ [][NextBudget]_vars

\* C5: whenever summarizeTabs sends a request, the size of the assembled
\* request (template, section headers and tab blocks, each as the code
\* measures it) is at most the budget.
C5_RequestWithinBudget ==
    bPhase = "sent" => built.total <= maxTokens

\* A request is sent that fills the budget exactly after a tab was cut.
C5_Witness ==
    /\ bPhase = "sent"
    /\ built.total = maxTokens
    /\ built.count >= 2

\* C6 as stated: for every input list and all budgets B1 <= B2 the count of
\* included documents under B1 is at most the count under B2.
C6_Monotone ==
    (bPhase = "built" /\ prevBuilt # <<>>) => built.count <= prevBuilt[1].count

NoReencodingSkew == \A i \in DOMAIN bTabs : bTabs[i].badCut = 0

\* C6 amended: the same, for a list without history tabs (one section) whose
\* cut blocks re-measure to wrapper plus cut body.
C6_MonotoneOneSection ==
    (/\ bPhase = "built"
     /\ prevBuilt # <<>>
     /\ HistoryTabs(bTabs) = <<>>
     /\ NoReencodingSkew)
        => built.count <= prevBuilt[1].count

\* Under the larger budget two tabs are included, under the smaller one fewer.
C6_Witness ==
    /\ bPhase = "built"
    /\ prevBuilt # <<>>
    /\ HistoryTabs(bTabs) = <<>>
    /\ NoReencodingSkew
    /\ prevBuilt[1].count = 2
    /\ built.count = 1

----------------------------------------------------------------------------
(***************************************************************************)
(* One run of collectAndSummarizeAllTabs over the catalog                  *)
(***************************************************************************)
HistUrls == {"u1", "u2"}

FreshUrls == {"u2", "u3"}

\* store.getAll() and chrome.tabs.query({}) return their records in order.
UrlOrder == <<"u1", "u2", "u3", "x">>

\* new URL(url).hostname.toLowerCase(), as its labels: "x" is a page of
\* mail.blocked, the others are pages of news.site.
hostnameFromUrl(url) == IF url = "x" THEN <<"mail", "blocked">> ELSE <<"news", "site">>

\* hostname.endsWith('.' + rule)
EndsWithDot(hostname, rule) ==
    /\ Len(rule) < Len(hostname)
    /\ SubSeq(hostname, Len(hostname) - Len(rule) + 1, Len(hostname)) = rule

isUrlExcludedUnder(rules, url) ==
    LET hostname == hostnameFromUrl(url)
    IN  /\ hostname # <<>>
        /\ \E rule \in rules : hostname = rule \/ EndsWithDot(hostname, rule)

\* isUrlExcluded(url), over the list in memory
isUrlExcluded(url) == isUrlExcludedUnder(excludedDomains, url)

\* The rule a user adds to exclude mail.blocked and all of blocked.
BlockedRule == <<"blocked">>

SeqOf(S) == SelectSeq(UrlOrder, LAMBDA u : u \in S)

UrlsOf(tabs) == {tabs[i].url : i \in DOMAIN tabs}

\* config.summarize.maxTokens, scaled down: nothing fits, a part fits, all fits.
RunBudgets == {0, 4, 12}

\* callWithRetry(request, 2)
Attempts == 2

BackoffUnitMs == 1200

\* The catalogs a run may find: every tab of HistUrls is absent or stored in
\* session "A" (id 1) or "B" (id 2); a session without tabs is not kept.
StoredId(n) == IF n = "A" THEN 1 ELSE 2

CatalogOf(f) ==
    [tabs |-> {[url |-> u, sessionId |-> StoredId(f[u]), title |-> "Old",
                summary |-> "old"] : u \in DOMAIN f},
     sessions |-> {[id |-> StoredId(f[u]), name |-> f[u]] : u \in DOMAIN f}]

CatalogsOver(U) == {CatalogOf(f) : f \in UNION {[H -> {"A", "B"}] : H \in SUBSET U}}

Catalogs == CatalogsOver(HistUrls)

SessionsInUse_KeepAll(sess, tabs) == sess

\* background.js:615-624: a session stays when tabIndex.get(sess.id) finds a tab
SessionsInUse(sess, tabs) == {x \in sess : \E t \in tabs : t.sessionId = x.id}

HasSession(store, n) == \E x \in store : x.name = n

IdOf(store, n) == (CHOOSE x \in store : x.name = n).id

NameOf(store, id) == (CHOOSE x \in store : x.id = id).name

\* fetchHistoricalTabsFromDB: the mapping of the stored records
HistoricalOf(store) ==
    LET rec(u) == CHOOSE t \in store : t.url = u
        us == SeqOf({t.url : t \in store})
    IN  [i \in DOMAIN us |->
            [title |-> IF rec(us[i]).title = "" THEN "Untitled" ELSE rec(us[i]).title,
             url |-> us[i],
             content |-> rec(us[i]).summary,
             source |-> "history"]]

\* injectAndGetContent's result with source: 'current'
FreshTab(u) == [title |-> "New", url |-> u, content |-> "raw", source |-> "current"]

\* background.js:166-171, the content replaced by the lite summary
Summarized(tabs, hist, S) ==
    [i \in DOMAIN tabs |->
        IF tabs[i].url \notin UrlsOf(hist) /\ tabs[i].url \in S
        THEN [tabs[i] EXCEPT !.content = "lite"]
        ELSE tabs[i]]

\* byUrl.set(t.url, t): a new key goes last, a known key keeps its place
SetByUrl(acc, t) ==
    IF t.url \in UrlsOf(acc)
    THEN [i \in DOMAIN acc |-> IF acc[i].url = t.url THEN t ELSE acc[i]]
    ELSE Append(acc, t)

RECURSIVE SetAll(_, _, _)
SetAll(acc, ts, i) ==
    IF i > Len(ts) THEN acc ELSE SetAll(SetByUrl(acc, ts[i]), ts, i + 1)

\* if (byUrl.has(t.url)) continue; byUrl.set(t.url, t)
RECURSIVE SetNew(_, _, _)
SetNew(acc, ts, i) ==
    IF i > Len(ts) THEN acc
    ELSE SetNew(IF ts[i].url \in UrlsOf(acc) THEN acc ELSE Append(acc, ts[i]), ts, i + 1)

Merge_FreshFirst(hist, cur) == SetNew(SetAll(<<>>, cur, 1), hist, 1)

\* background.js:176-196, byUrl: history first, a current tab only if new
Merge(hist, cur) == SetNew(SetAll(<<>>, hist, 1), cur, 1)

\* The token costs of a tab of the run: a summary is shorter than raw text.
ForBudget(tabs) ==
    [i \in DOMAIN tabs |->
        [url |-> tabs[i].url, source |-> tabs[i].source, wrapper |-> 1,
         body |-> IF tabs[i].content = "raw" THEN 2 ELSE 1,
         badCut |-> 0, sessionId |-> 0]]

\* historyTabs.map(h => ({tab_id, session_name, summarized_content, session_id}))
\* background.js gives a history tab no sessionName, hence 'Uncategorized'.
Passthrough(tabs) ==
    LET hist == HistoryTabs(tabs) IN
    [i \in DOMAIN hist |->
        [tab_id |-> hist[i].url, session_name |-> "Uncategorized",
         summarized_content |-> hist[i].content]]

\* What summarizeTabs returns when it made no request: firebase_ai.js:279-282,
\* part_005:348-357
ZeroDocsResult(im, tabs) == IF im = "firebase_ai" THEN <<>> ELSE Passthrough(tabs)

\* What it returns when the call or the parse failed: firebase_ai.js:306-314,
\* part_005:417-437
FallbackResult(im, tabs) == IF im = "firebase_ai" THEN <<>> ELSE Passthrough(tabs)

\* What it returns for a parsed array: firebase_ai.js:305, part_005:410-416
MergedResult(im, tabs, parsed) ==
    IF im = "firebase_ai" THEN parsed ELSE Passthrough(tabs) \o parsed

\* A parsed response: an entry for some of the offered urls, each with the
\* name of an existing session ("A") or of a new one ("C").
ParsedOf(f) ==
    LET us == SeqOf({u \in DOMAIN f : f[u] # "omit"})
    IN  [i \in DOMAIN us |->
            [tab_id |-> us[i], session_name |-> f[us[i]], summarized_content |-> "new"]]

RetryAfter_AnyError(im, kind, i) == im = "part_005" /\ i < Attempts

\* if (isAbort && i < attempts): only part_005 has the retry loop
RetryAfter(im, kind, i) == im = "part_005" /\ kind = "abort" /\ i < Attempts

\* const backoffMs = 1200 * (i + 1)
BackoffMs(i) == BackoffUnitMs * (i + 1)

AfterParseFailure_Resend == "call"

\* catch (jsonError) { ...; return ... }: the call ends, nothing is resent
AfterParseFailure == "save"

IsGoodTitle(x) == x \notin {"", "Untitled"}

\* background.js:205-237, bestTitleByUrl
BestTitles(hist, valid, combined) ==
    LET hTitle(u) == (CHOOSE t \in Range(hist) : t.url = u).title
        cTitle(u) == (CHOOSE t \in Range(valid) : t.url = u).title
        best(u) ==
            IF u \in UrlsOf(valid) /\ IsGoodTitle(cTitle(u)) THEN cTitle(u)
            ELSE IF u \in UrlsOf(hist) THEN hTitle(u)
            ELSE IF cTitle(u) = "" THEN "Untitled" ELSE cTitle(u)
    IN  {[url |-> u, title |-> best(u)] :
            u \in UrlsOf(hist) \cup UrlsOf(valid) \cup UrlsOf(combined)}

HasTitle(u) == \E x \in tabTitles : x.url = u

TitleOf(u) == (CHOOSE x \in tabTitles : x.url = u).title

\* A delete pass that keeps every stored tab.
UrlsFromAI_KeepAll == {t.url : t \in tabsStore}

\* background.js:483-487, urlsFromAI
UrlsFromAI == {aiResults[i].tab_id : i \in DOMAIN aiResults} \cap {x.url : x \in tabTitles}

\* Every entry under the default name.
SessionNameOf_AlwaysDefault(r) == "Uncategorized"

\* const sessionName = result.session_name || "Uncategorized"
SessionNameOf(r) == IF r.session_name = "" THEN "Uncategorized" ELSE r.session_name

\* The locals of a run that has not started.
RunNotStarted ==
    /\ pc = "idle"
    /\ validTabs = <<>>
    /\ historicalTabs = <<>>
    /\ combinedTabs = <<>>
    /\ offered = <<>>
    /\ attempt = 0
    /\ callLog = <<>>
    /\ waits = <<>>
    /\ outcome = "none"
    /\ aiResults = <<>>
    /\ tabTitles = {}
    /\ sessions = [n \in Names |-> 0]
    /\ resultIdx = 1
    /\ sessionId = 0
    /\ notified = "none"
    /\ pre = [tabs |-> {}, sessions |-> {}]
    /\ deleted = {}
    /\ injectableTabs = {}
    /\ fetchLog = <<>>
    /\ pendingRejects = {}

InitRun ==
    /\ IdleRL
    /\ impl \in Impls
    /\ maxTokens \in RunBudgets
    /\ bTabs = <<>>
    /\ built = EmptyPrompt
    /\ prevBuilt = <<>>
    /\ bPhase = "input"
    /\ \E c \in Catalogs : tabsStore = c.tabs /\ sessionsStore = c.sessions
    /\ nextSessionId = 3
    /\ openTabs \in SUBSET FreshUrls
    /\ reportedUrl = [u \in openTabs |-> u]
    /\ excludedStore = {}
    /\ excludedDomains = {}
    /\ rejectedStore = {}
    /\ rejectedExists \in BOOLEAN
    /\ dbVersion = DB_VERSION
    /\ RunNotStarted
    /\ IdleRest

\* The budget that admits every document of a run.
AmpleBudget == 12

\* A run under the rule BlockedRule: "x" may be stored from before the rule
\* was added, may be open, and may be where the page of tab "u3" is by the
\* time its content is read.
InitExcl ==
    /\ IdleRL
    /\ impl \in Impls
    /\ maxTokens = AmpleBudget
    /\ bTabs = <<>>
    /\ built = EmptyPrompt
    /\ prevBuilt = <<>>
    /\ bPhase = "input"
    /\ \E c \in CatalogsOver({"u1", "x"}) : tabsStore = c.tabs /\ sessionsStore = c.sessions
    /\ nextSessionId = 3
    /\ openTabs \in SUBSET {"u3", "x"}
    /\ reportedUrl \in [openTabs -> {"u3", "x"}]
    /\ \A u \in openTabs : reportedUrl[u] \in {u, "x"}
    /\ excludedStore = {BlockedRule}
    /\ excludedDomains = {BlockedRule}
    /\ rejectedStore = {}
    /\ rejectedExists \in BOOLEAN
    /\ dbVersion = DB_VERSION
    /\ RunNotStarted
    /\ IdleRest

frame == <<now, timestamps, mutex, acqState, wakeAt, granted, impl, maxTokens,
           bTabs, built, prevBuilt, bPhase, restVars>>

\* loadExcludedDomains(): openDB() rejects when the database is newer than
\* DB_VERSION, and the list is then left empty.
LoadedDomains == IF dbVersion > DB_VERSION THEN {} ELSE excludedStore

\* background.js:100-116: the rules are reloaded, then the injectable tabs
\* are the open tabs whose url is not excluded; none: return
StartRun ==
    /\ pc = "idle"
    /\ pre' = [tabs |-> tabsStore, sessions |-> sessionsStore]
    /\ excludedDomains' = LoadedDomains
    /\ injectableTabs' = {u \in openTabs : ~isUrlExcludedUnder(LoadedDomains, u)}
    /\ pc' = IF injectableTabs' = {} THEN "ended" ELSE "collect"
    /\ UNCHANGED <<frame, dbVars, openTabs, validTabs, historicalTabs, combinedTabs,
                   offered, attempt, callLog, waits, outcome, aiResults, tabTitles,
                   sessions, resultIdx, sessionId, notified, deleted,
                   excludedStore, reportedUrl, fetchLog, pendingRejects,
                   rejectedStore, rejectedExists, dbVersion>>

\* background.js:101-104 and 246-251: chrome.tabs.query rejects, the catch
\* sends COLLECT_TABS_FAILED
EnumerationFails ==
    /\ pc = "idle"
    /\ pre' = [tabs |-> tabsStore, sessions |-> sessionsStore]
    /\ excludedDomains' = LoadedDomains
    /\ pc' = "failed"
    /\ notified' = "failed"
    /\ UNCHANGED <<frame, dbVars, openTabs, validTabs, historicalTabs, combinedTabs,
                   offered, attempt, callLog, waits, outcome, aiResults, tabTitles,
                   sessions, resultIdx, sessionId, deleted, injectableTabs,
                   excludedStore, reportedUrl, fetchLog, pendingRejects,
                   rejectedStore, rejectedExists, dbVersion>>

\* How injectAndGetContent(tab) may end: the content came ("ok"); the tab
\* was reloaded, waitForTabReady timed out (.catch(() => {})) and the content
\* came all the same ("lateOk"); executeScript or sendMessage timed out or
\* threw, or the response had no url ("failed": saveRejectedTab, null).
FetchEnds == {"ok", "lateOk", "failed"}

AfterCollect_GoOn(valid) == "history"

\* background.js:140-143: if (validTabs.length === 0) return
AfterCollect(valid) == IF valid = <<>> THEN "ended" ELSE "history"

\* background.js:118-143: every fetch settles; a failed one starts
\* saveRejectedTab(tab.url) without awaiting it; no content at all: return
Collect ==
    /\ pc = "collect"
    /\ \E f \in [injectableTabs -> FetchEnds] :
        LET ok == SeqOf({u \in injectableTabs : f[u] # "failed"}) IN
        /\ fetchLog' = f
        /\ validTabs' = [i \in DOMAIN ok |-> FreshTab(reportedUrl[ok[i]])]
        /\ pendingRejects' = pendingRejects \cup {u \in injectableTabs : f[u] = "failed"}
        /\ pc' = AfterCollect(ok)
    /\ UNCHANGED <<frame, dbVars, openTabs, historicalTabs, combinedTabs,
                   offered, attempt, callLog, waits, outcome, aiResults, tabTitles,
                   sessions, resultIdx, sessionId, notified, pre, deleted,
                   excludedStore, excludedDomains, reportedUrl, injectableTabs,
                   rejectedStore, rejectedExists, dbVersion>>

\* saveAISummaries holds its connection from its open to its finally.
ConnectionOpen == pc \in {"delete", "loadSessions", "resolve", "put"}

\* background.js:403-465, saveRejectedTab(url, reason): indexedDB.open(DB_NAME)
\* without a version; when the store "rejected_tabs" is missing the database
\* is reopened at db.version + 1 to create it, which waits for the other
\* connections to close; then the record is put under its url.
SaveRejectedTab(u) ==
    /\ u \in pendingRejects
    /\ IF rejectedExists
       THEN UNCHANGED <<rejectedExists, dbVersion>>
       ELSE /\ ~ConnectionOpen
            /\ rejectedExists' = TRUE
            /\ dbVersion' = dbVersion + 1
    /\ rejectedStore' = rejectedStore \cup {u}
    /\ pendingRejects' = pendingRejects \ {u}
    /\ UNCHANGED <<frame, dbVars, pc, openTabs, validTabs, historicalTabs, combinedTabs,
                   offered, attempt, callLog, waits, outcome, aiResults, tabTitles,
                   sessions, resultIdx, sessionId, notified, pre, deleted,
                   excludedStore, excludedDomains, reportedUrl, injectableTabs,
                   fetchLog>>

RejectedTabSaved == \E u \in pendingRejects : SaveRejectedTab(u)

\* background.js:146-148: indexedDB.open(DB_NAME, DB_VERSION) rejects when
\* the database is newer, and the history is then []; the excluded go
ReadHistory ==
    /\ pc = "history"
    /\ historicalTabs' =
           IF dbVersion > DB_VERSION THEN <<>>
           ELSE SelectSeq(HistoricalOf(tabsStore), LAMBDA t : ~isUrlExcluded(t.url))
    /\ pc' = "presummarize"
    /\ UNCHANGED <<frame, fetchVars, dbVars, openTabs, validTabs, combinedTabs,
                   offered, attempt, callLog, waits, outcome, aiResults, tabTitles,
                   sessions, resultIdx, sessionId, notified, pre, deleted>>

\* background.js:152-197: the lite summaries that came back, then the merge
PreSummarizeAndMerge ==
    /\ pc = "presummarize"
    /\ \E S \in SUBSET (UrlsOf(validTabs) \ UrlsOf(historicalTabs)) :
        combinedTabs' = Merge(historicalTabs, Summarized(validTabs, historicalTabs, S))
    /\ pc' = "summarize"
    /\ UNCHANGED <<frame, fetchVars, dbVars, openTabs, validTabs, historicalTabs,
                   offered, attempt, callLog, waits, outcome, aiResults, tabTitles,
                   sessions, resultIdx, sessionId, notified, pre, deleted>>

\* summarizeTabs up to the tabsInPrompt test
AssemblePrompt ==
    /\ pc = "summarize"
    /\ LET b == BuildPrompt(impl, ForBudget(combinedTabs), maxTokens) IN
        /\ offered' = b.included
        /\ IF b.count = 0
           THEN /\ aiResults' = ZeroDocsResult(impl, combinedTabs)
                /\ outcome' = "zero"
                /\ pc' = "save"
           ELSE /\ pc' = "call"
                /\ UNCHANGED <<aiResults, outcome>>
    /\ UNCHANGED <<frame, fetchVars, dbVars, openTabs, validTabs, historicalTabs, combinedTabs,
                   attempt, callLog, waits, tabTitles,
                   sessions, resultIdx, sessionId, notified, pre, deleted>>

\* model.generateContent(request)
CallModel ==
    /\ pc = "call"
    /\ callLog' = Append(callLog, "classify")
    /\ pc' = "awaiting"
    /\ UNCHANGED <<frame, fetchVars, dbVars, openTabs, validTabs, historicalTabs, combinedTabs,
                   offered, attempt, waits, outcome, aiResults, tabTitles,
                   sessions, resultIdx, sessionId, notified, pre, deleted>>

\* The response parses as an array.
ResponseParsed ==
    /\ pc = "awaiting"
    /\ \E f \in [Range(offered) -> {"omit", "A", "C"}] :
        aiResults' = MergedResult(impl, combinedTabs, ParsedOf(f))
    /\ callLog' = Append(callLog, "ok")
    /\ outcome' = "ok"
    /\ pc' = "save"
    /\ UNCHANGED <<frame, fetchVars, dbVars, openTabs, validTabs, historicalTabs, combinedTabs,
                   offered, attempt, waits, tabTitles,
                   sessions, resultIdx, sessionId, notified, pre, deleted>>

\* JSON.parse throws, or the value is not an array.
ResponseMalformed ==
    /\ pc = "awaiting"
    /\ callLog' = Append(callLog, "malformed")
    /\ outcome' = "parsefail"
    /\ aiResults' = FallbackResult(impl, combinedTabs)
    /\ pc' = AfterParseFailure
    /\ UNCHANGED <<frame, fetchVars, dbVars, openTabs, validTabs, historicalTabs, combinedTabs,
                   offered, attempt, waits, tabTitles,
                   sessions, resultIdx, sessionId, notified, pre, deleted>>

\* generateContent rejects: an abort/timeout, or any other error (429, ...).
ResponseThrows(kind) ==
    /\ pc = "awaiting"
    /\ callLog' = Append(callLog, kind)
    /\ IF RetryAfter(impl, kind, attempt)
       THEN /\ waits' = Append(waits, BackoffMs(attempt))
            /\ attempt' = attempt + 1
            /\ pc' = "call"
            /\ UNCHANGED <<outcome, aiResults>>
       ELSE /\ outcome' = "transport"
            /\ aiResults' = FallbackResult(impl, combinedTabs)
            /\ pc' = "save"
            /\ UNCHANGED <<waits, attempt>>
    /\ UNCHANGED <<frame, fetchVars, dbVars, openTabs, validTabs, historicalTabs, combinedTabs,
                   offered, tabTitles,
                   sessions, resultIdx, sessionId, notified, pre, deleted>>

ResponseAborted == ResponseThrows("abort")

ResponseError == ResponseThrows("error")

\* background.js:205-238 and 474-479: the titles, then saveAISummaries opens
\* the db at DB_VERSION; the open rejects when the database is newer, the
\* run's catch sends COLLECT_TABS_FAILED (246-251)
SaveOpen ==
    /\ pc = "save"
    /\ tabTitles' = BestTitles(historicalTabs, validTabs, combinedTabs)
    /\ IF dbVersion > DB_VERSION
       THEN /\ pc' = "failed"
            /\ notified' = "failed"
       ELSE /\ pc' = "delete"
            /\ UNCHANGED notified
    /\ UNCHANGED <<frame, fetchVars, dbVars, openTabs, validTabs, historicalTabs, combinedTabs,
                   offered, attempt, callLog, waits, outcome, aiResults,
                   sessions, resultIdx, sessionId, pre, deleted>>

\* background.js:490-505: every stored tab whose url is not in urlsFromAI goes
DeletePass ==
    /\ pc = "delete"
    /\ tabsStore' = {t \in tabsStore : t.url \in UrlsFromAI}
    /\ deleted' = deleted \cup {t.url : t \in {x \in tabsStore : x.url \notin UrlsFromAI}}
    /\ pc' = "loadSessions"
    /\ UNCHANGED <<frame, fetchVars, sessionsStore, nextSessionId, openTabs, validTabs,
                   historicalTabs, combinedTabs, offered, attempt, callLog, waits,
                   outcome, aiResults, tabTitles, sessions, resultIdx, sessionId,
                   notified, pre>>

\* background.js:508-523
LoadSessions ==
    /\ pc = "loadSessions"
    /\ sessions' = [n \in Names |->
                       IF HasSession(sessionsStore, n) THEN IdOf(sessionsStore, n) ELSE 0]
    /\ resultIdx' = 1
    /\ pc' = "resolve"
    /\ UNCHANGED <<frame, fetchVars, dbVars, openTabs, validTabs, historicalTabs, combinedTabs,
                   offered, attempt, callLog, waits, outcome, aiResults, tabTitles,
                   sessionId, notified, pre, deleted>>

\* background.js:526-575, getOrCreateSessionId(result.session_name)
ResolveSession ==
    /\ pc = "resolve"
    /\ resultIdx <= Len(aiResults)
    /\ LET n == SessionNameOf(aiResults[resultIdx]) IN
        IF sessions[n] # 0
        THEN /\ sessionId' = sessions[n]
             /\ UNCHANGED <<sessions, sessionsStore, nextSessionId>>
        ELSE IF HasSession(sessionsStore, n)
        THEN /\ sessionId' = IdOf(sessionsStore, n)
             /\ sessions' = [sessions EXCEPT ![n] = IdOf(sessionsStore, n)]
             /\ UNCHANGED <<sessionsStore, nextSessionId>>
        ELSE /\ sessionId' = nextSessionId
             /\ sessionsStore' = sessionsStore \cup {[id |-> nextSessionId, name |-> n]}
             /\ nextSessionId' = nextSessionId + 1
             /\ sessions' = [sessions EXCEPT ![n] = nextSessionId]
    /\ pc' = "put"
    /\ UNCHANGED <<frame, fetchVars, tabsStore, openTabs, validTabs, historicalTabs, combinedTabs,
                   offered, attempt, callLog, waits, outcome, aiResults, tabTitles,
                   resultIdx, notified, pre, deleted>>

\* background.js:582-605: the row is skipped, or put under its url
PutTab ==
    /\ pc = "put"
    /\ LET r == aiResults[resultIdx] IN
        IF r.tab_id = "" \/ ~HasTitle(r.tab_id) \/ isUrlExcluded(r.tab_id)
        THEN UNCHANGED tabsStore
        ELSE tabsStore' = {t \in tabsStore : t.url # r.tab_id} \cup
                {[url |-> r.tab_id, sessionId |-> sessionId,
                  title |-> IF TitleOf(r.tab_id) = "" THEN "Untitled" ELSE TitleOf(r.tab_id),
                  summary |-> r.summarized_content]}
    /\ resultIdx' = resultIdx + 1
    /\ pc' = "resolve"
    /\ UNCHANGED <<frame, fetchVars, sessionsStore, nextSessionId, openTabs, validTabs,
                   historicalTabs, combinedTabs, offered, attempt, callLog, waits,
                   outcome, aiResults, tabTitles, sessions, sessionId, notified,
                   pre, deleted>>

LoopOver_Early(idx, res) == TRUE

\* background.js:578-606: for (const result of aiResults) with every
\* getOrCreateSessionId and every put awaited; step 5 follows the loop
LoopOver(idx, res) == idx > Len(res)

\* background.js:608-640: the sessions no tab refers to are deleted
RemoveEmptySessions ==
    /\ pc = "resolve"
    /\ LoopOver(resultIdx, aiResults)
    /\ sessionsStore' = SessionsInUse(sessionsStore, tabsStore)
    /\ pc' = "notify"
    /\ UNCHANGED <<frame, fetchVars, tabsStore, nextSessionId, openTabs, validTabs,
                   historicalTabs, combinedTabs, offered, attempt, callLog, waits,
                   outcome, aiResults, tabTitles, sessions, resultIdx, sessionId,
                   notified, pre, deleted>>

\* background.js:239-245: COLLECT_TABS_DONE
NotifyDone ==
    /\ pc = "notify"
    /\ notified' = "done"
    /\ pc' = "done"
    /\ UNCHANGED <<frame, fetchVars, dbVars, openTabs, validTabs, historicalTabs, combinedTabs,
                   offered, attempt, callLog, waits, outcome, aiResults, tabTitles,
                   sessions, resultIdx, sessionId, pre, deleted>>

NextRun ==
    \/ StartRun
    \/ EnumerationFails
    \/ Collect
    \/ RejectedTabSaved
    \/ ReadHistory
    \/ PreSummarizeAndMerge
    \/ AssemblePrompt
    \/ CallModel
    \/ ResponseParsed
    \/ ResponseMalformed
    \/ ResponseAborted
    \/ ResponseError
    \/ SaveOpen
    \/ DeletePass
    \/ LoadSessions
    \/ ResolveSession
    \/ PutTab
    \/ RemoveEmptySessions
    \/ NotifyDone

SpecRun == InitRun /\ [][NextRun]_vars

SpecExcl == InitExcl /\ [][NextRun]_vars

Spec == SpecRun

----------------------------------------------------------------------------
(***************************************************************************)
(* Claims about the run                                                    *)
(***************************************************************************)
ResultUrls == {aiResults[i].tab_id : i \in DOMAIN aiResults}

\* The stored tab of t's url has t's summary and is in a session of the same
\* name as t's session was.
SameMembership(t) ==
    \E x \in tabsStore :
        /\ x.url = t.url
        /\ x.summary = t.summary
        /\ \E g \in sessionsStore :
            g.id = x.sessionId /\ g.name = NameOf(pre.sessions, t.sessionId)

\* C3: when the classifier call fails (transport error after the retries, or
\* an unparsable response), summarizeTabs returns the historical set, and
\* after saveAISummaries every tab stored before the run is still stored with
\* the same session and the same summary.
C3_FailureKeepsHistory ==
    (pc = "done" /\ outcome \in {"parsefail", "transport"}) =>
        /\ ResultUrls = UrlsOf(historicalTabs)
        /\ \A t \in pre.tabs : SameMembership(t)

\* C4: the run deletes a stored tab only if its url was offered to the
\* classifier and is absent from the result list.
C4_DeletesOnlyOffered ==
    \A u \in deleted : u \in Range(offered) /\ u \notin ResultUrls

\* C7: when the budget admits no document, no request is made, the run does
\* not fail, and the stored sessions and tabs are what they were.
C7_ZeroDocsKeepsCatalog ==
    (pc = "done" /\ outcome = "zero") =>
        /\ callLog = <<>>
        /\ notified # "failed"
        /\ \A t \in pre.tabs : SameMembership(t)
        /\ {t.url : t \in tabsStore} = {t.url : t \in pre.tabs}
        /\ {g.name : g \in sessionsStore} = {g.name : g \in pre.sessions}

RequestsAfter(i) ==
    {j \in DOMAIN callLog : j > i /\ callLog[j] \in {"classify", "repair"}}

Malformed == {i \in DOMAIN callLog : callLog[i] = "malformed"}

C9_OneRepairRequest ==
    (outcome = "parsefail" /\ pc \notin {"call", "awaiting"}) =>
        \A i \in Malformed :
            (\A j \in Malformed : i <= j) => Cardinality(RequestsAfter(i)) = 1

Classifies == {j \in DOMAIN callLog : callLog[j] = "classify"}

\* C10: callWithRetry (part_005) sends a further request only after an abort,
\* at most Attempts times, after waits that grow; any other error, or an
\* abort of the last attempt, ends the call with the historical fallback; a
\* malformed response is not retried.
C10_RetryOnlyAborts ==
    impl = "part_005" =>
        /\ \A j \in Classifies : j > 1 => callLog[j - 1] = "abort"
        /\ Cardinality(Classifies) <= Attempts + 1
        /\ Cardinality({j \in Classifies : j > 1}) <= Len(waits)
        /\ Len(waits) <= Attempts
        /\ pc # "call" => Len(waits) = Cardinality({j \in Classifies : j > 1})
        /\ \A j \in DOMAIN waits : waits[j] = BackoffUnitMs * j
        /\ \A j \in DOMAIN waits : j > 1 => waits[j - 1] < waits[j]
        /\ outcome = "transport" =>
            /\ callLog[Len(callLog)] \in {"abort", "error"}
            /\ callLog[Len(callLog)] = "abort" => Cardinality(Classifies) = Attempts + 1
            /\ aiResults = Passthrough(combinedTabs)

\* Three calls were aborted: two retries, then the fallback.
C10_Witness ==
    /\ impl = "part_005"
    /\ pc = "done"
    /\ outcome = "transport"
    /\ Len(waits) = Attempts
    /\ callLog[Len(callLog)] = "abort"
----------------------------------------------------------------------------
(***************************************************************************)
(* processWithConcurrency(items, concurrency, mapper)                      *)
(* background.js:120-132.  The mapper is injectAndGetContent, which never  *)
(* rejects: it resolves to a document or to null.                          *)
(***************************************************************************)
MaxItems == 4

MaxConcurrency == 3

IdlePipeline == IdleRL /\ IdleBudget /\ IdleRun

pipelineVars == <<rlVars, impl, maxTokens, bgVars, dbVars, runVars>>

poolOthers == <<pipelineVars, writerVars, twiceVars, liteVars, laterVars>>

WorkerCount_OnePerItem(c, n) == n

Pull_SkipOne(current, n) ==
    IF current + 1 >= n THEN [st |-> "done", cur |-> 0]
    ELSE [st |-> "fetching", cur |-> current + 1]

\* Array(Math.min(concurrency, items.length))
WorkerCount(c, n) == Min(c, n)

\* const current = index++; if (current >= items.length) break;
\* results[current] = await mapper(items[current], current)
Pull(current, n) ==
    IF current >= n THEN [st |-> "done", cur |-> 0]
    ELSE [st |-> "fetching", cur |-> current]

InFlight == {w \in DOMAIN workers : workers[w].st = "fetching"}

\* mapper(items[current], current) is called by the workers in ws.
MapperCalled(count, ws) ==
    [i \in DOMAIN count |->
        count[i] + Cardinality({w \in DOMAIN ws : ws[w].st = "fetching" /\ ws[w].cur = i})]

InitPool ==
    /\ IdlePipeline
    /\ IdleWriters
    /\ IdleTwice
    /\ IdleLite
    /\ IdleLater
    /\ nItems \in 0..MaxItems
    /\ concurrency \in 1..MaxConcurrency
    /\ index = 0
    /\ workers = <<>>
    /\ results = [i \in 0..(nItems - 1) |-> "empty"]
    /\ poolPhase = "mapping"
    /\ fetchCount = [i \in 0..(nItems - 1) |-> 0]
    /\ storedFrom = [i \in 0..(nItems - 1) |-> {}]

\* .map(async () => {...}): each worker runs up to its first await, in order
StartWorkers ==
    /\ poolPhase = "mapping"
    /\ LET W == WorkerCount(concurrency, nItems) IN
        /\ workers' = [w \in 1..W |-> Pull(index + w - 1, nItems)]
        /\ index' = index + W
    /\ fetchCount' = MapperCalled(fetchCount, workers')
    /\ poolPhase' = "awaiting"
    /\ UNCHANGED <<nItems, concurrency, results, storedFrom, poolOthers>>

\* The mapper's promise settles: the result is stored, the next item pulled.
FetchSettles(w, r) ==
    /\ poolPhase = "awaiting"
    /\ w \in InFlight
    /\ results' = [results EXCEPT ![workers[w].cur] = r]
    /\ storedFrom' = [storedFrom EXCEPT ![workers[w].cur] = @ \cup {workers[w].cur}]
    /\ workers' = [workers EXCEPT ![w] = Pull(index, nItems)]
    /\ fetchCount' = MapperCalled(fetchCount, [x \in {w} |-> workers'[w]])
    /\ index' = index + 1
    /\ UNCHANGED <<nItems, concurrency, poolPhase, poolOthers>>

FetchSucceeds == \E w \in DOMAIN workers : FetchSettles(w, "doc")

FetchFails == \E w \in DOMAIN workers : FetchSettles(w, "null")

\* await Promise.all(workers); return results
PoolReturns ==
    /\ poolPhase = "awaiting"
    /\ InFlight = {}
    /\ poolPhase' = "returned"
    /\ UNCHANGED <<nItems, concurrency, index, workers, results, fetchCount, storedFrom,
                   poolOthers>>

NextPool == StartWorkers \/ FetchSucceeds \/ FetchFails \/ PoolReturns

SpecPool == InitPool /\ [][NextPool]_vars

\* C11: while the collector processes nItems sources under the limit
\* concurrency, at most min(concurrency, nItems) fetches are in flight.
C11_InFlightBounded ==
    Cardinality(InFlight) <= Min(concurrency, nItems)

\* The limit is reached again after a worker pulled a further item.
C11_Witness ==
    /\ nItems > concurrency
    /\ index > concurrency
    /\ Cardinality(InFlight) = concurrency

----------------------------------------------------------------------------
(***************************************************************************)
(* Claims about the collector's failures, the merge and the exclusions     *)
(***************************************************************************)
\* The fetches that ended in the catch of injectAndGetContent.
FailedFetches == {u \in DOMAIN fetchLog : fetchLog[u] = "failed"}

\* The fetches one of whose three timeouts expired, or that threw.
TimedOutFetches == {u \in DOMAIN fetchLog : fetchLog[u] \in {"failed", "lateOk"}}

\* C12: a fetch that fails (a timeout of the readiness wait, of the
\* extraction call or of the content retrieval, or an extraction error)
\* yields one RejectionRecord, is left out of the working set and stops
\* neither the other fetches nor the run; without history the working set
\* and the classifier's input are exactly the other documents.
C12_FetchFailuresContained ==
    (pc \in {"done", "failed"} /\ pendingRejects = {}) =>
        /\ rejectedStore = TimedOutFetches
        /\ TimedOutFetches \cap UrlsOf(combinedTabs) = {}
        /\ notified = "done"
        /\ pre.tabs = {} =>
            /\ UrlsOf(combinedTabs) = injectableTabs \ TimedOutFetches
            /\ callLog # <<>> => Range(offered) \subseteq UrlsOf(combinedTabs)

\* The merge of the run has been made.
Merged == pc \notin {"idle", "collect", "history", "presummarize", "ended"}

TabOf(tabs, u) == tabs[CHOOSE i \in DOMAIN tabs : tabs[i].url = u]

\* C13: the merged working set holds no two documents of one identity, and
\* for an identity both in the history and among the fresh documents it
\* holds the historical document, with its content.
C13_HistoryShadowsFresh ==
    Merged =>
        /\ \A i, j \in DOMAIN combinedTabs :
              combinedTabs[i].url = combinedTabs[j].url => i = j
        /\ UrlsOf(combinedTabs) = UrlsOf(historicalTabs) \cup UrlsOf(validTabs)
        /\ \A u \in UrlsOf(historicalTabs) \cap UrlsOf(validTabs) :
              TabOf(combinedTabs, u) = TabOf(historicalTabs, u)

\* A fresh document and a historical one of the same identity were merged,
\* and their contents differ.
C13_Witness ==
    /\ Merged
    /\ \E u \in UrlsOf(historicalTabs) \cap UrlsOf(validTabs) :
          TabOf(validTabs, u).content # TabOf(historicalTabs, u).content

\* The url matches a rule of the store "excluded_urls".
Excluded(u) == isUrlExcludedUnder(excludedStore, u)

\* toSummarize: the fresh documents given to summarizeTabsLiteBatch
ToSummarize == {u \in UrlsOf(validTabs) : u \notin UrlsOf(historicalTabs)}

\* C14: no document whose identity matches an ExclusionRule is in the
\* working set given to the pre-summarizer or to the classifier, and the run
\* persists no Membership for such an identity, also when the identity is in
\* the history or is the one reported by the fetch.
C14_ExcludedNeverProcessed ==
    /\ Merged =>
        /\ \A u \in ToSummarize : ~Excluded(u)
        /\ \A u \in UrlsOf(combinedTabs) : ~Excluded(u)
        /\ \A u \in Range(offered) : ~Excluded(u)
    /\ pc # "idle" => \A t \in tabsStore : Excluded(t.url) => t \in pre.tabs


\* ---------------------------------------------------------------------------
\* Concurrent writers: saveAISummaries (background.js:468-645) called by
\* runs that overlap, over the same stores. Each await of a writer is one
\* step; an IndexedDB transaction is atomic.
\* ---------------------------------------------------------------------------

Writers == {1, 2}

\* The urls of a writer's tabTitles; "u9" is a tab_id no run provided.
WriterTitles == {"u1", "u2"}

WriterRows == [tab_id : {"u1", "u2", "u9"}, session_name : {"A", "B"}]

WriterResults == {<<>>} \cup {<<r>> : r \in WriterRows}

\* background.js:483-487
WUrlsFromAI(w) == {wResults[w][i].tab_id : i \in DOMAIN wResults[w]} \cap WriterTitles

WName(w) == wResults[w][wIdx[w]].session_name

writerOthers == <<rlVars, impl, maxTokens, bgVars, runVars, poolVars, twiceVars,
                  liteVars, laterVars>>

InitWriters ==
    /\ IdleRL
    /\ IdleBudget
    /\ \E c \in CatalogsOver({"u1"}) :
        /\ tabsStore = c.tabs
        /\ sessionsStore = c.sessions
    /\ nextSessionId = 3
    /\ openTabs = {}
    /\ reportedUrl = <<>>
    /\ excludedStore = {}
    /\ excludedDomains = {}
    /\ rejectedStore = {}
    /\ rejectedExists = FALSE
    /\ dbVersion = DB_VERSION
    /\ RunNotStarted
    /\ IdlePool
    /\ IdleTwice
    /\ IdleLite
    /\ IdleLater
    /\ wPc = [w \in Writers |-> "delete"]
    /\ wResults \in [Writers -> WriterResults]
    /\ wSessions = [w \in Writers |-> [n \in Names |-> 0]]
    /\ wIdx = [w \in Writers |-> 1]
    /\ wId = [w \in Writers |-> 0]
    /\ wResolved = [w \in Writers |-> {}]

\* The writer holds id for the name of its row.
Resolved(w, id) ==
    /\ wId' = [wId EXCEPT ![w] = id]
    /\ wSessions' = [wSessions EXCEPT ![w][WName(w)] = id]
    /\ wResolved' = [wResolved EXCEPT ![w] = @ \cup {[name |-> WName(w), id |-> id]}]
    /\ wPc' = [wPc EXCEPT ![w] = "put"]

\* background.js:490-505
WDeletePass(w) ==
    /\ wPc[w] = "delete"
    /\ tabsStore' = {t \in tabsStore : t.url \in WUrlsFromAI(w)}
    /\ wPc' = [wPc EXCEPT ![w] = "load"]
    /\ UNCHANGED <<writerOthers, sessionsStore, nextSessionId, wResults, wSessions, wIdx,
                   wId, wResolved>>

\* background.js:508-523
WLoadSessions(w) ==
    /\ wPc[w] = "load"
    /\ wSessions' = [wSessions EXCEPT ![w] = [n \in Names |->
                       IF HasSession(sessionsStore, n) THEN IdOf(sessionsStore, n) ELSE 0]]
    /\ wPc' = [wPc EXCEPT ![w] = "check"]
    /\ UNCHANGED <<writerOthers, dbVars, wResults, wIdx, wId, wResolved>>

\* background.js:527-538: the cache, else the read-only lookup by name
WCheck(w) ==
    /\ wPc[w] = "check"
    /\ wIdx[w] <= Len(wResults[w])
    /\ IF wSessions[w][WName(w)] # 0
       THEN Resolved(w, wSessions[w][WName(w)])
       ELSE IF HasSession(sessionsStore, WName(w))
       THEN Resolved(w, IdOf(sessionsStore, WName(w)))
       ELSE /\ wPc' = [wPc EXCEPT ![w] = "create"]
            /\ UNCHANGED <<wId, wSessions, wResolved>>
    /\ UNCHANGED <<writerOthers, dbVars, wResults, wIdx>>

\* background.js:541-551 and 566-569: store.add({ name }); a ConstraintError
\* aborts the transaction
WCreate(w) ==
    /\ wPc[w] = "create"
    /\ IF ~HasSession(sessionsStore, WName(w))
       THEN /\ sessionsStore' = sessionsStore \cup
                                   {[id |-> nextSessionId, name |-> WName(w)]}
            /\ nextSessionId' = nextSessionId + 1
            /\ Resolved(w, nextSessionId)
       ELSE /\ wPc' = [wPc EXCEPT ![w] = "reread"]
            /\ UNCHANGED <<sessionsStore, nextSessionId, wId, wSessions, wResolved>>
    /\ UNCHANGED <<writerOthers, tabsStore, wResults, wIdx>>

\* background.js:552-565 and 572-574: tx.onabort reads the session by name
\* again; createdId undefined throws out of saveAISummaries
WReread(w) ==
    /\ wPc[w] = "reread"
    /\ IF HasSession(sessionsStore, WName(w))
       THEN Resolved(w, IdOf(sessionsStore, WName(w)))
       ELSE /\ wPc' = [wPc EXCEPT ![w] = "failed"]
            /\ UNCHANGED <<wId, wSessions, wResolved>>
    /\ UNCHANGED <<writerOthers, dbVars, wResults, wIdx>>

hasOwnTitle_Always(titles, url) == TRUE

\* Object.prototype.hasOwnProperty.call(tabTitles, url)
hasOwnTitle(titles, url) == url \in titles

\* background.js:582-605
WPut(w) ==
    /\ wPc[w] = "put"
    /\ LET r == wResults[w][wIdx[w]] IN
        IF ~hasOwnTitle(WriterTitles, r.tab_id)
        THEN UNCHANGED tabsStore
        ELSE tabsStore' = {t \in tabsStore : t.url # r.tab_id} \cup
                {[url |-> r.tab_id, sessionId |-> wId[w], title |-> "New",
                  summary |-> "s"]}
    /\ wIdx' = [wIdx EXCEPT ![w] = @ + 1]
    /\ wPc' = [wPc EXCEPT ![w] = "check"]
    /\ UNCHANGED <<writerOthers, sessionsStore, nextSessionId, wResults, wSessions, wId,
                   wResolved>>

\* background.js:609-640
WRemoveEmptySessions(w) ==
    /\ wPc[w] = "check"
    /\ wIdx[w] > Len(wResults[w])
    /\ sessionsStore' = SessionsInUse(sessionsStore, tabsStore)
    /\ wPc' = [wPc EXCEPT ![w] = "done"]
    /\ UNCHANGED <<writerOthers, tabsStore, nextSessionId, wResults, wSessions, wIdx, wId,
                   wResolved>>

DeletePassBy == \E w \in Writers : WDeletePass(w)

SessionsLoadedBy == \E w \in Writers : WLoadSessions(w)

CheckBy == \E w \in Writers : WCheck(w)

CreateBy == \E w \in Writers : WCreate(w)

RereadBy == \E w \in Writers : WReread(w)

PutBy == \E w \in Writers : WPut(w)

CleanupBy == \E w \in Writers : WRemoveEmptySessions(w)

NextWriters ==
    \/ DeletePassBy
    \/ SessionsLoadedBy
    \/ CheckBy
    \/ CreateBy
    \/ RereadBy
    \/ PutBy
    \/ CleanupBy

SpecWriters == InitWriters /\ [][NextWriters]_vars

\* The names both writers request.
Requests(w) == {wResults[w][i].session_name : i \in DOMAIN wResults[w]}

SharedNames == {n \in Names : \A w \in Writers : n \in Requests(w)}

\* C15: for any interleaving of writers that request the same group name, a
\* writer that holds an id for the name holds the id of the one Group of that
\* name in the store, and the writers resolve the same id for the name.
C15_OneGroupOneId ==
    /\ \A w \in Writers :
        (wPc[w] = "put" /\ WName(w) \in SharedNames) =>
            /\ Cardinality({x \in sessionsStore : x.name = WName(w)}) = 1
            /\ IdOf(sessionsStore, WName(w)) = wId[w]
    /\ \A n \in SharedNames :
        Cardinality({p.id : p \in {q \in UNION {wResolved[w] : w \in Writers} :
                                      q.name = n}}) <= 1

\* C16: after a uniqueness conflict the writer's re-read obtains an id and the
\* writer continues; under no interleaving does the save fail.
C16_ConflictNeverFails == \A w \in Writers : wPc[w] # "failed"


\* ---------------------------------------------------------------------------
\* Claims about what a run leaves in the stores
\* ---------------------------------------------------------------------------

ResultIds == {aiResults[i].tab_id : i \in DOMAIN aiResults}

OfferedMemberships == {t \in tabsStore : t.url \in Range(offered)}

EmptyGroups == {g \in sessionsStore : ~\E t \in tabsStore : t.sessionId = g.id}

\* C18: when a run completes, no session without a tab is left in the stores.
C18_NoEmptyGroup == pc = "done" => EmptyGroups = {}

\* A completed run whose cleanup deleted a session it found in the store.
C18_Witness ==
    /\ pc = "done"
    /\ \E g \in pre.sessions : g \notin sessionsStore


\* ---------------------------------------------------------------------------
\* Two runs in immediate succession: COLLECT_TABS again once the first run
\* sent COLLECT_TABS_DONE, over the same open tabs.
\* ---------------------------------------------------------------------------

\* The first run under a budget that admits every document, so that both
\* runs send all they have.
InitTwice ==
    /\ IdleRL
    /\ impl \in Impls
    /\ maxTokens = AmpleBudget
    /\ bTabs = <<>>
    /\ built = EmptyPrompt
    /\ prevBuilt = <<>>
    /\ bPhase = "input"
    /\ \E c \in CatalogsOver({"u1"}) : tabsStore = c.tabs /\ sessionsStore = c.sessions
    /\ nextSessionId = 3
    /\ openTabs \in SUBSET FreshUrls
    /\ reportedUrl = [u \in openTabs |-> u]
    /\ excludedStore = {}
    /\ excludedDomains = {}
    /\ rejectedStore = {}
    /\ rejectedExists = TRUE
    /\ dbVersion = DB_VERSION
    /\ RunNotStarted
    /\ IdleRest

\* background.js:100-104: the message COLLECT_TABS starts the next run
RunAgain ==
    /\ pc = "done"
    /\ runNo = 1
    /\ runNo' = 2
    /\ first' = [tabs |-> tabsStore, sessions |-> sessionsStore, offered |-> offered,
                 aiResults |-> aiResults, outcome |-> outcome, fetchLog |-> fetchLog]
    /\ pc' = "idle"
    /\ validTabs' = <<>>
    /\ historicalTabs' = <<>>
    /\ combinedTabs' = <<>>
    /\ offered' = <<>>
    /\ attempt' = 0
    /\ callLog' = <<>>
    /\ waits' = <<>>
    /\ outcome' = "none"
    /\ aiResults' = <<>>
    /\ tabTitles' = {}
    /\ sessions' = [n \in Names |-> 0]
    /\ resultIdx' = 1
    /\ sessionId' = 0
    /\ notified' = "none"
    /\ pre' = [tabs |-> {}, sessions |-> {}]
    /\ deleted' = {}
    /\ injectableTabs' = {}
    /\ fetchLog' = <<>>
    /\ UNCHANGED <<rlVars, impl, maxTokens, bgVars, dbVars, openTabs, excludedStore,
                   excludedDomains, reportedUrl, pendingRejects, rejectedStore,
                   rejectedExists, dbVersion, poolVars, writerVars, liteVars, laterVars>>

NextTwice ==
    \/ NextRun
    \/ RunAgain

SpecTwice == InitTwice /\ [][NextTwice]_vars

\* The classifier's entry for url u in a result list ("none": no entry).
AnswerFor(res, u) ==
    IF \E i \in DOMAIN res : res[i].tab_id = u
    THEN (CHOOSE r \in Range(res) : r.tab_id = u).session_name
    ELSE "none"

\* The second run had the same sources and a stable classifier: the fetches
\* ended as in the first run, no classifier call failed in either run, and a
\* url offered in both runs got the same answer in both.
SameConditions ==
    /\ fetchLog = first.fetchLog
    /\ outcome \in {"ok", "zero"}
    /\ first.outcome \in {"ok", "zero"}
    /\ \A u \in Range(offered) \cap Range(first.offered) :
        AnswerFor(aiResults, u) = AnswerFor(first.aiResults, u)

Membership(t) == [url |-> t.url, sessionId |-> t.sessionId, summary |-> t.summary]

\* C19: after the second of two runs in immediate succession, with the same
\* sources and a classifier that answers the same, the sessions (ids and
\* names) and the tabs (session and summary per url) are those the first run
\* left.
C19_SecondRunChangesNothing ==
    (runNo = 2 /\ pc = "done" /\ SameConditions) =>
        /\ sessionsStore = first.sessions
        /\ {Membership(t) : t \in tabsStore} = {Membership(t) : t \in first.tabs}


\* ---------------------------------------------------------------------------
\* summarizeTabsLiteBatch (firebase_ai.js:326-435, part_005:449-562): the
\* tabs in chunks of BATCH_SIZE, one request per chunk, the chunks mapped by
\* mapWithConcurrency, all inside one try/catch.
\* ---------------------------------------------------------------------------

\* config.liteSummary.batchSize and concurrency, scaled down
LiteBatchSize == 2

LiteConcurrency == 2

MaxLiteTabs == 6

liteOthers == <<pipelineVars, poolVars, writerVars, twiceVars, laterVars>>

\* chunks.push(tabs.slice(i, i + BATCH_SIZE)), chunks numbered from 0
ChunkCount(n) == (n + LiteBatchSize - 1) \div LiteBatchSize

ChunkTabs(c, n) == {t \in 1..n : (t - 1) \div LiteBatchSize = c}

\* What summarizeChunk resolves with: the items of a parsed array; [] when
\* the text does not parse or is not an array.
ChunkItems(r, c, n) == IF r = "ok" THEN ChunkTabs(c, n) ELSE {}

\* The flattening and the ordering by the input: the tabs some chunk gave.
Flatten(res) == UNION {res[c] : c \in DOMAIN res}

\* catch (e) { return []; }
AfterRejection(res) == {}

InitLite ==
    /\ IdlePipeline
    /\ IdlePool
    /\ IdleWriters
    /\ IdleTwice
    /\ IdleLater
    /\ liteN \in 1..MaxLiteTabs
    /\ litePhase = "start"
    /\ liteIndex = 0
    /\ liteWorkers = <<>>
    /\ chunkResults = [c \in 0..(ChunkCount(liteN) - 1) |-> {}]
    /\ liteEnds = [c \in 0..(ChunkCount(liteN) - 1) |-> "none"]
    /\ liteOut = {}

\* if (tabs.length <= BATCH_SIZE) return await summarizeChunk(tabs); else the
\* workers are made and each pulls its first chunk
LiteStart ==
    /\ litePhase = "start"
    /\ IF liteN <= LiteBatchSize
       THEN /\ litePhase' = "single"
            /\ UNCHANGED <<liteIndex, liteWorkers>>
       ELSE LET k == Min(LiteConcurrency, ChunkCount(liteN)) IN
            /\ liteWorkers' = [w \in 1..k |-> [st |-> "fetching", cur |-> w - 1]]
            /\ liteIndex' = k
            /\ litePhase' = "mapping"
    /\ UNCHANGED <<liteN, chunkResults, liteEnds, liteOut, liteOthers>>

\* The single request path ends.
SingleRequestEnds(r) ==
    /\ litePhase = "single"
    /\ liteEnds' = [liteEnds EXCEPT ![0] = r]
    /\ liteOut' = IF r = "threw" THEN AfterRejection(chunkResults)
                  ELSE ChunkItems(r, 0, liteN)
    /\ litePhase' = "returned"
    /\ UNCHANGED <<liteN, liteIndex, liteWorkers, chunkResults, liteOthers>>

\* results[current] = await mapper(items[current], current), then the next
\* index++; the loops go on after the function returned.
ChunkResolves(w, r) ==
    /\ litePhase \in {"mapping", "returned"}
    /\ w \in DOMAIN liteWorkers
    /\ liteWorkers[w].st = "fetching"
    /\ LET c == liteWorkers[w].cur IN
        /\ chunkResults' = [chunkResults EXCEPT ![c] = ChunkItems(r, c, liteN)]
        /\ liteEnds' = [liteEnds EXCEPT ![c] = r]
    /\ liteWorkers' = [liteWorkers EXCEPT ![w] = Pull(liteIndex, ChunkCount(liteN))]
    /\ liteIndex' = liteIndex + 1
    /\ UNCHANGED <<liteN, litePhase, liteOut, liteOthers>>

ChunkOk == \E w \in DOMAIN liteWorkers : ChunkResolves(w, "ok")

ChunkMalformed == \E w \in DOMAIN liteWorkers : ChunkResolves(w, "malformed")

\* liteModel.generateContent (or liteLimiter.acquire) rejects: the worker's
\* promise rejects, Promise.all rejects at once and the outer catch returns
ChunkThrows ==
    \E w \in DOMAIN liteWorkers :
        /\ litePhase \in {"mapping", "returned"}
        /\ liteWorkers[w].st = "fetching"
        /\ liteEnds' = [liteEnds EXCEPT ![liteWorkers[w].cur] = "threw"]
        /\ liteWorkers' = [liteWorkers EXCEPT ![w] = [st |-> "rejected", cur |-> 0]]
        /\ IF litePhase = "mapping"
           THEN /\ liteOut' = AfterRejection(chunkResults)
                /\ litePhase' = "returned"
           ELSE UNCHANGED <<liteOut, litePhase>>
        /\ UNCHANGED <<liteN, liteIndex, chunkResults, liteOthers>>

\* await Promise.all(workers) resolves; flatten, order, return
LiteReturns ==
    /\ litePhase = "mapping"
    /\ \A w \in DOMAIN liteWorkers : liteWorkers[w].st = "done"
    /\ liteOut' = Flatten(chunkResults)
    /\ litePhase' = "returned"
    /\ UNCHANGED <<liteN, liteIndex, liteWorkers, chunkResults, liteEnds, liteOthers>>

NextLite ==
    \/ LiteStart
    \/ \E r \in {"ok", "malformed", "threw"} : SingleRequestEnds(r)
    \/ ChunkOk
    \/ ChunkMalformed
    \/ ChunkThrows
    \/ LiteReturns

SpecLite == InitLite /\ [][NextLite]_vars

\* C20: in the returned result a chunk whose request failed or whose response
\* was malformed has no summary, and every other chunk that got its summaries
\* has them all.
C20_FailedBatchAlone ==
    litePhase = "returned" =>
        \A c \in DOMAIN liteEnds :
            /\ liteEnds[c] \in {"malformed", "threw"} => ChunkTabs(c, liteN) \cap liteOut = {}
            /\ liteEnds[c] = "ok" => ChunkTabs(c, liteN) \subseteq liteOut


\* ---------------------------------------------------------------------------
\* searchRelevantTabs (firebase_ai.js:452-557, part_005:578-683), called by
\* searchTabsLite (background.js:89-98) with topK = 3: one request per chunk
\* of BATCH_SIZE tabs, the candidates merged by url, sorted, cut to topK.
\* ---------------------------------------------------------------------------

\* config.search.batchSize and concurrency, scaled down
SearchBatchSize == 2

SearchConcurrency == 2

MaxSearchTabs == 4

\* searchRelevantTabs(tabs, query, 3)
MaxTopK == 3

MaxScore == 2

\* A parsed response is an array of candidates {url, score}; the model
\* answers with whatever urls and scores it likes.
Candidates == [url : {"p", "q", "r"}, score : 1..MaxScore]

CandidateLists ==
    {<<>>} \cup {<<a>> : a \in Candidates}
        \cup {<<a, b>> : a \in Candidates, b \in Candidates}

\* How a chunk's request ends: it throws, the text is not a JSON array, or
\* an array is parsed.
SearchResponses ==
    {[kind |-> k, items |-> <<>>] : k \in {"threw", "malformed"}}
        \cup {[kind |-> "ok", items |-> l] : l \in CandidateLists}

NoResponse == [kind |-> "none", items |-> <<>>]

searchOthers == <<pipelineVars, poolVars, writerVars, twiceVars, liteVars, injectVars,
                  titleVars, moreVars>>

SearchChunkCount(n) == (n + SearchBatchSize - 1) \div SearchBatchSize

\* A failed chunk that leaves a candidate behind.
runChunk_Leaky(r) ==
    IF r.kind # "ok" THEN <<[url |-> "p", score |-> MaxScore]>> ELSE r.items

\* runChunk: [] from either catch, else the items of the parsed array
runChunk(r) == IF r.kind # "ok" THEN <<>> ELSE r.items

\* A merge in which the later candidate of a url wins.
KeepHigher_LastWins(acc, r) == SetByUrl(acc, r)

\* if (!existing || (r.score || 0) > (existing.score || 0)) byUrl.set(r.url, r)
KeepHigher(acc, r) ==
    IF r.url \in UrlsOf(acc) /\
       r.score <= (CHOOSE e \in Range(acc) : e.url = r.url).score
    THEN acc
    ELSE SetByUrl(acc, r)

RECURSIVE MergeCandidates(_, _, _)
MergeCandidates(acc, rs, i) ==
    IF i > Len(rs) THEN acc ELSE MergeCandidates(KeepHigher(acc, rs[i]), rs, i + 1)

\* for (const arr of chunkResults) for (const r of (arr || [])) ...
RECURSIVE MergeChunks(_, _, _, _)
MergeChunks(acc, res, c, k) ==
    IF c >= k THEN acc
    ELSE MergeChunks(MergeCandidates(acc, res[c], 1), res, c + 1, k)

\* .sort((a, b) => (b.score || 0) - (a.score || 0)): stable, descending
RECURSIVE SortFrom(_, _)
SortFrom(rs, s) ==
    IF s < 0 THEN <<>>
    ELSE SelectSeq(rs, LAMBDA r : r.score = s) \o SortFrom(rs, s - 1)

SortByScore(rs) == SortFrom(rs, MaxScore)

\* .slice(0, topK)
Slice(rs, k) == SubSeq(rs, 1, Min(k, Len(rs)))

InitSearch ==
    /\ IdlePipeline
    /\ IdlePool
    /\ IdleWriters
    /\ IdleTwice
    /\ IdleLite
    /\ IdleInject
    /\ IdleTitles
    /\ IdleMore
    /\ sN \in 1..MaxSearchTabs
    /\ sK \in 1..MaxTopK
    /\ sPhase = "start"
    /\ sIndex = 0
    /\ sWorkers = <<>>
    /\ sResults = [c \in 0..(SearchChunkCount(sN) - 1) |-> <<>>]
    /\ sEnds = [c \in 0..(SearchChunkCount(sN) - 1) |-> NoResponse]
    /\ sOut = <<>>

\* if (tabs.length <= BATCH_SIZE) the single request; else the workers are
\* made and each pulls its first chunk
SearchStart ==
    /\ sPhase = "start"
    /\ IF sN <= SearchBatchSize
       THEN /\ sPhase' = "single"
            /\ UNCHANGED <<sIndex, sWorkers>>
       ELSE LET k == Min(SearchConcurrency, SearchChunkCount(sN)) IN
            /\ sWorkers' = [w \in 1..k |-> [st |-> "fetching", cur |-> w - 1]]
            /\ sIndex' = k
            /\ sPhase' = "mapping"
    /\ UNCHANGED <<sN, sK, sResults, sEnds, sOut, searchOthers>>

\* firebase_ai.js:518-521
SingleSearchEnds ==
    /\ sPhase = "single"
    /\ \E r \in SearchResponses :
        /\ sEnds' = [sEnds EXCEPT ![0] = r]
        /\ sResults' = [sResults EXCEPT ![0] = runChunk(r)]
        /\ sOut' = Slice(SortByScore(runChunk(r)), sK)
    /\ sPhase' = "returned"
    /\ UNCHANGED <<sN, sK, sIndex, sWorkers, searchOthers>>

\* results[current] = await mapper(items[current], current), the next index++
SearchChunkEnds ==
    /\ sPhase = "mapping"
    /\ \E w \in DOMAIN sWorkers :
        /\ sWorkers[w].st = "fetching"
        /\ \E r \in SearchResponses :
            /\ sEnds' = [sEnds EXCEPT ![sWorkers[w].cur] = r]
            /\ sResults' = [sResults EXCEPT ![sWorkers[w].cur] = runChunk(r)]
        /\ sWorkers' = [sWorkers EXCEPT ![w] = Pull(sIndex, SearchChunkCount(sN))]
        /\ sIndex' = sIndex + 1
    /\ UNCHANGED <<sN, sK, sPhase, sOut, searchOthers>>

\* firebase_ai.js:539-556
SearchReturns ==
    /\ sPhase = "mapping"
    /\ \A w \in DOMAIN sWorkers : sWorkers[w].st = "done"
    /\ sOut' = Slice(SortByScore(MergeChunks(<<>>, sResults, 0, SearchChunkCount(sN))), sK)
    /\ sPhase' = "returned"
    /\ UNCHANGED <<sN, sK, sIndex, sWorkers, sResults, sEnds, searchOthers>>

NextSearch ==
    \/ SearchStart
    \/ SingleSearchEnds
    \/ SearchChunkEnds
    \/ SearchReturns

SpecSearch == InitSearch /\ [][NextSearch]_vars

FailedChunks == {c \in DOMAIN sEnds : sEnds[c].kind \in {"threw", "malformed"}}

GoodChunks == {c \in DOMAIN sEnds : sEnds[c].kind = "ok"}

\* The candidates the chunks that did not fail answered with.
GoodCandidates == UNION {Range(sEnds[c].items) : c \in GoodChunks}

BestScore(u) ==
    CHOOSE s \in 1..MaxScore :
        /\ \E a \in GoodCandidates : a.url = u /\ a.score = s
        /\ \A a \in GoodCandidates : a.url = u => a.score <= s

GoodUrls == {a.url : a \in GoodCandidates}

\* C21: whatever chunks fail, the search returns, and what it returns are
\* the best min(K, number of urls) candidates of the chunks that did not
\* fail, each with its best score; a failed chunk adds nothing.
C21_FailedChunkContained ==
    /\ (sPhase = "mapping" /\ \A w \in DOMAIN sWorkers : sWorkers[w].st = "done") =>
            ENABLED SearchReturns
    /\ (sPhase = "returned" /\ sN > SearchBatchSize) =>
        /\ Len(sOut) = Min(sK, Cardinality(GoodUrls))
        /\ \A i \in DOMAIN sOut :
            /\ sOut[i].url \in GoodUrls
            /\ sOut[i].score = BestScore(sOut[i].url)
        /\ \A u \in GoodUrls \ UrlsOf(sOut) :
            \A i \in DOMAIN sOut : BestScore(u) <= sOut[i].score
    /\ (sPhase = "returned" /\ FailedChunks = DOMAIN sEnds) => sOut = <<>>

\* A chunked search returned with one chunk failed and candidates from another.
C21_Witness ==
    /\ sPhase = "returned"
    /\ sN > SearchBatchSize
    /\ FailedChunks # {}
    /\ \E c \in DOMAIN sEnds : sEnds[c].kind = "threw"
    /\ sOut # <<>>

\* C22: the search returns at most K items, in non-increasing order of
\* score, and of the candidates several chunks return for one url the one
\* with the higher score is the one kept.
C22_TopKSortedBest ==
    sPhase = "returned" =>
        /\ Len(sOut) <= sK
        /\ \A i, j \in DOMAIN sOut : i < j => sOut[i].score >= sOut[j].score
        /\ sN > SearchBatchSize =>
            /\ \A i, j \in DOMAIN sOut : i # j => sOut[i].url # sOut[j].url
            /\ \A i \in DOMAIN sOut :
                \A c \in GoodChunks : \A a \in Range(sEnds[c].items) :
                    a.url = sOut[i].url => a.score <= sOut[i].score

\* Two chunks returned the same url with different scores, more urls than K
\* came back, and the higher-scored candidate is in the result.
C22_Witness ==
    /\ sPhase = "returned"
    /\ sN > SearchBatchSize
    /\ Cardinality(GoodUrls) > sK
    /\ \E c, d \in GoodChunks : \E a \in Range(sEnds[c].items) :
        \E b \in Range(sEnds[d].items) :
        /\ c < d
        /\ a.url = b.url
        /\ a.score > b.score
        /\ \E i \in DOMAIN sOut : sOut[i].url = a.url


\* ---------------------------------------------------------------------------
\* injectAndGetContent(tab) (background.js:255-346): a frozen or discarded
\* tab is reloaded and waited for, then the content script is injected and
\* asked for the content; every rejection ends in the one catch.
\* ---------------------------------------------------------------------------

injectOthers == <<pipelineVars, poolVars, writerVars, twiceVars, liteVars, searchVars,
                  titleVars, moreVars>>

Call(op, end) == [op |-> op, end |-> end]

Called(op) == \E i \in DOMAIN iCalls : iCalls[i].op = op

\* A readiness wait that gives the tab up unless it became ready.
AfterReadyWait_FailClosed(end) == IF end = "ready" THEN "inject" ELSE "caught"

\* await waitForTabReady(tab.id, tab.url).catch(() => {}): whatever the end,
\* the injection is next
AfterReadyWait(end) == "inject"

InitInject ==
    /\ IdlePipeline
    /\ IdlePool
    /\ IdleWriters
    /\ IdleTwice
    /\ IdleLite
    /\ IdleSearch
    /\ IdleTitles
    /\ IdleMore
    /\ iPc = "start"
    /\ iTab \in [frozen : BOOLEAN, discarded : BOOLEAN]
    /\ iCalls = <<>>
    /\ iResult = "none"

\* The step to position p; "caught" is the catch of lines 339-345:
\* saveRejectedTab is started and null returned.
GoTo(p, call) ==
    IF p = "caught"
    THEN /\ iCalls' = iCalls \o <<call, Call("saveRejectedTab", "started")>>
         /\ iResult' = "null"
         /\ iPc' = "returned"
    ELSE /\ iCalls' = Append(iCalls, call)
         /\ iPc' = p
         /\ UNCHANGED iResult

\* if (tab.frozen || tab.discarded)
InjectStart ==
    /\ iPc = "start"
    /\ iPc' = IF iTab.frozen \/ iTab.discarded THEN "update" ELSE "inject"
    /\ UNCHANGED <<iTab, iCalls, iResult, injectOthers>>

\* try { await chrome.tabs.update(...) } catch {}
UpdateSettles ==
    /\ iPc = "update"
    /\ \E end \in {"ok", "threw"} : GoTo("reload", Call("update", end))
    /\ UNCHANGED <<iTab, injectOthers>>

\* await chrome.tabs.reload(tab.id)
ReloadSettles ==
    /\ iPc = "reload"
    /\ \E end \in {"ok", "threw"} :
        GoTo(IF end = "ok" THEN "waitReady" ELSE "caught", Call("reload", end))
    /\ UNCHANGED <<iTab, injectOthers>>

\* waitForTabReady resolves (check finds the tab complete), rejects
\* (chrome.tabs.get throws) or is beaten by the timer of withTimeout
ReadyWaitSettles ==
    /\ iPc = "waitReady"
    /\ \E end \in {"ready", "rejected", "timedOut"} :
        GoTo(AfterReadyWait(end), Call("waitForTabReady", end))
    /\ UNCHANGED <<iTab, injectOthers>>

\* await withTimeout(chrome.scripting.executeScript(...))
ScriptInjectionSettles ==
    /\ iPc = "inject"
    /\ \E end \in {"ok", "threw", "timedOut"} :
        GoTo(IF end = "ok" THEN "fetch" ELSE "caught", Call("executeScript", end))
    /\ UNCHANGED <<iTab, injectOthers>>

\* await withTimeout(chrome.tabs.sendMessage(GET_CONTENT)); response.url
ContentFetchSettles ==
    /\ iPc = "fetch"
    /\ \E end \in {"content", "empty", "threw", "timedOut"} :
        IF end = "content"
        THEN /\ iCalls' = Append(iCalls, Call("sendMessage", end))
             /\ iResult' = "content"
             /\ iPc' = "returned"
        ELSE GoTo("caught", Call("sendMessage", end))
    /\ UNCHANGED <<iTab, injectOthers>>

NextInject ==
    \/ InjectStart
    \/ UpdateSettles
    \/ ReloadSettles
    \/ ReadyWaitSettles
    \/ ScriptInjectionSettles
    \/ ContentFetchSettles

SpecInject == InitInject /\ [][NextInject]_vars

\* Every awaited call settles: the timers of withTimeout fire, the browser
\* answers update and reload.
SpecInjectFair == SpecInject /\ WF_vars(NextInject)

\* C23: once a frozen or discarded tab has been reloaded, the content script
\* is injected, however the readiness wait ends.
C23_ExtractionAfterRevive == (iPc = "waitReady") ~> Called("executeScript")

\* A reloaded tab whose readiness wait timed out, and the injection was
\* made all the same.
C23_Witness ==
    /\ \E i \in DOMAIN iCalls : iCalls[i] = Call("waitForTabReady", "timedOut")
    /\ \E i \in DOMAIN iCalls : iCalls[i] = Call("waitForTabReady", "timedOut") /\
                                i < Len(iCalls) /\ iCalls[i + 1].op = "executeScript"


\* ---------------------------------------------------------------------------
\* The title a run persists for one url: bestTitleByUrl (background.js:
\* 204-237) from the history record and the fetched tabs, then the put
\* (592-601).
\* ---------------------------------------------------------------------------

titleOthers == <<pipelineVars, poolVars, writerVars, twiceVars, liteVars, searchVars,
                 injectVars, moreVars>>

\* The titles a store record may hold (viewer.js:80 copies any tab.title) and
\* the titles document.title may be (content.js:7).
StoredTitles == {"", " ", "Untitled", "UNTITLED", "Old", " Old "}

FreshTitles == {"", " ", "Untitled", " untitled ", "New", " New ", "News"}

\* String.prototype.trim()
Trim(x) ==
    CASE x = " " -> ""
      [] x = " Old " -> "Old"
      [] x = " New " -> "New"
      [] x = " untitled " -> "untitled"
      [] OTHER -> x

\* val.toLowerCase() === 'untitled'
LowerIsUntitled(x) == x \in {"Untitled", "UNTITLED", "untitled"}

\* A test that takes every non-empty title for a good one.
isGoodTitle_AnyText(x) == Trim(x) # ""

\* background.js:205-208
isGoodTitle(x) == Trim(x) # "" /\ ~LowerIsUntitled(Trim(x))

\* x || y on strings
OrElse(x, y) == IF x = "" THEN y ELSE x

\* fetchHistoricalTabsFromDB: title: t.title || "Untitled" (background.js:390)
HistoryTitle(x) == OrElse(x, "Untitled")

InitTitles ==
    /\ IdlePipeline
    /\ IdlePool
    /\ IdleWriters
    /\ IdleTwice
    /\ IdleLite
    /\ IdleSearch
    /\ IdleInject
    /\ IdleMore
    /\ tPc = "history"
    /\ tStored \in {<<>>} \cup {<<x>> : x \in StoredTitles}
    /\ tFresh \in {<<>>} \cup {<<x>> : x \in FreshTitles}
                  \cup {<<x, y>> : x \in FreshTitles, y \in FreshTitles}
    /\ tStored # <<>> \/ tFresh # <<>>
    /\ tBest = <<>>
    /\ tIdx = 1
    /\ tPersisted = <<>>

\* background.js:212-216: seed from history
SeedFromHistory ==
    /\ tPc = "history"
    /\ tBest' = IF tStored = <<>> THEN <<>>
                ELSE LET t == HistoryTitle(tStored[1]) IN
                     IF isGoodTitle(t) THEN <<Trim(t)>>
                     ELSE <<Trim(OrElse(t, "Untitled"))>>
    /\ tPc' = "current"
    /\ UNCHANGED <<tStored, tFresh, tIdx, tPersisted, titleOthers>>

\* background.js:218-228: one fetched tab is overlaid
OverlayCurrent ==
    /\ tPc = "current"
    /\ tIdx <= Len(tFresh)
    /\ LET curr == Trim(tFresh[tIdx]) IN
        tBest' = IF isGoodTitle(curr) THEN <<curr>>
                 ELSE IF tBest = <<>> \/ tBest = <<"">> THEN <<OrElse(curr, "Untitled")>>
                 ELSE tBest
    /\ tIdx' = tIdx + 1
    /\ UNCHANGED <<tPc, tStored, tFresh, tPersisted, titleOthers>>

\* background.js:230-235: every combined url has a value by now
EnsureCombined ==
    /\ tPc = "current"
    /\ tIdx > Len(tFresh)
    /\ tBest' = IF tBest = <<>> THEN <<"Untitled">> ELSE tBest
    /\ tPc' = "put"
    /\ UNCHANGED <<tStored, tFresh, tIdx, tPersisted, titleOthers>>

\* background.js:596: title: tabTitles[url] || "Untitled"
PutTitle ==
    /\ tPc = "put"
    /\ tPersisted' = <<OrElse(tBest[1], "Untitled")>>
    /\ tPc' = "stored"
    /\ UNCHANGED <<tStored, tFresh, tBest, tIdx, titleOthers>>

NextTitles ==
    \/ SeedFromHistory
    \/ OverlayCurrent
    \/ EnsureCombined
    \/ PutTitle

SpecTitles == InitTitles /\ [][NextTitles]_vars

\* Non-empty and not the placeholder, spaces around it and case aside.
Meaningful(x) == Trim(x) \notin {"", "Untitled", "UNTITLED", "untitled"}

FreshMeaningful == {Trim(tFresh[i]) : i \in {j \in DOMAIN tFresh : Meaningful(tFresh[j])}}

\* C24: the title put for a url is a fresh title when one is non-empty and
\* not the placeholder; otherwise the stored title when that is non-empty and
\* not the placeholder; otherwise a placeholder.
C24_TitlePolicy ==
    tPc = "stored" =>
        IF FreshMeaningful # {} THEN tPersisted[1] \in FreshMeaningful
        ELSE IF tStored # <<>> /\ Meaningful(tStored[1]) THEN tPersisted[1] = Trim(tStored[1])
        ELSE tPersisted[1] \in {"Untitled", "UNTITLED", "untitled"}

\* A stored title was kept over a fresh placeholder.
C24_Witness ==
    /\ tPc = "stored"
    /\ tStored = <<"Old">>
    /\ tFresh = <<"Untitled">>
    /\ tPersisted = <<"Old">>


\* ---------------------------------------------------------------------------
\* A first run: empty stores, up to three open tabs, a budget that admits
\* every document.
\* ---------------------------------------------------------------------------

InitFresh ==
    /\ IdleRL
    /\ impl \in Impls
    /\ maxTokens = AmpleBudget
    /\ bTabs = <<>>
    /\ built = EmptyPrompt
    /\ prevBuilt = <<>>
    /\ bPhase = "input"
    /\ tabsStore = {}
    /\ sessionsStore = {}
    /\ nextSessionId = 1
    /\ openTabs \in SUBSET {"u2", "u3", "x"}
    /\ reportedUrl = [u \in openTabs |-> u]
    /\ excludedStore = {}
    /\ excludedDomains = {}
    /\ rejectedStore = {}
    /\ rejectedExists = TRUE
    /\ dbVersion = DB_VERSION
    /\ RunNotStarted
    /\ IdleRest

SpecFresh == InitFresh /\ [][NextRun]_vars

\* No classifier call failed and the answer has an entry for every document
\* that was fetched.
ClassifiedAll ==
    /\ \A i \in DOMAIN callLog : callLog[i] \in {"classify", "ok"}
    /\ \A u \in UrlsOf(validTabs) : \E i \in DOMAIN aiResults : aiResults[i].tab_id = u

ResultNames == {aiResults[i].session_name : i \in DOMAIN aiResults}

\* C25: a completed run over empty stores whose classifier answered for every
\* fetched document made exactly one classifier call, with all the documents,
\* and left one session per distinct session name of the result and one tab
\* per document, each in the session its entry names.
C25_FreshRunCatalog ==
    (pc = "done" /\ pre.tabs = {} /\ ClassifiedAll) =>
        /\ callLog = <<"classify", "ok">>
        /\ Range(offered) = UrlsOf(validTabs)
        /\ Len(offered) = Len(validTabs)
        /\ {g.name : g \in sessionsStore} = ResultNames
        /\ Cardinality(sessionsStore) = Cardinality(ResultNames)
        /\ {t.url : t \in tabsStore} = UrlsOf(validTabs)
        /\ Cardinality(tabsStore) = Len(validTabs)
        /\ \A i \in DOMAIN aiResults :
            \E t \in tabsStore : \E g \in sessionsStore :
                /\ t.url = aiResults[i].tab_id
                /\ g.id = t.sessionId
                /\ g.name = aiResults[i].session_name

\* Three documents in two sessions: 2 sessions and 3 tabs stored.
C25_Witness ==
    /\ pc = "done"
    /\ ClassifiedAll
    /\ Len(validTabs) = 3
    /\ Cardinality(sessionsStore) = 2
    /\ Cardinality(tabsStore) = 3


\* ---------------------------------------------------------------------------
\* Claims about the notifications of a run
\* ---------------------------------------------------------------------------

\* collectAndSummarizeAllTabs has returned.
RunOver == pc \in {"ended", "done", "failed"}

\* C26: a run that has ended has sent COLLECT_TABS_DONE or
\* COLLECT_TABS_FAILED.
C26_EndsWithOneNotification == RunOver => notified \in {"done", "failed"}


\* The run failed at chrome.tabs.query: before any tab was listed or fetched.
EnumerationFailed == pc = "failed" /\ injectableTabs = {} /\ fetchLog = <<>>

\* C27: COLLECT_TABS_FAILED is sent only when the open tabs could not be
\* listed; no fetch failure, budget, classifier failure or store conflict
\* makes a run send it.
C27_FailedOnlyOnEnumeration == notified = "failed" => EnumerationFailed



\* ---------------------------------------------------------------------------
\* The calls of summarizeChunk (firebase_ai.js:338-386, part_005:461-511):
\* what each chunk's worker does before it sends its request to the lite
\* model.
\* ---------------------------------------------------------------------------

reqOthers == <<pipelineVars, poolVars, writerVars, twiceVars, liteVars, searchVars,
               injectVars, titleVars, overlapVars, rejectVars, preVars>>

\* The statement that follows the building of the request: part_005:492 has
\* await liteLimiter.acquire() before the request of line 493;
\* firebase_ai.js:367 has the request alone.
BeforeRequest(i) == IF i = "part_005" THEN "acquire" ELSE "request"

LiteCall(op, c) == [op |-> op, chunk |-> c]

InitReq ==
    /\ IdlePipeline
    /\ IdlePool
    /\ IdleWriters
    /\ IdleTwice
    /\ IdleLite
    /\ IdleSearch
    /\ IdleInject
    /\ IdleTitles
    /\ IdleOverlap
    /\ IdleRejects
    /\ IdlePre
    /\ qImpl \in Impls
    /\ qN \in 1..MaxLiteTabs
    /\ qPhase = "start"
    /\ qIndex = 0
    /\ qWorkers = <<>>
    /\ qLog = <<>>

\* if (tabs.length <= BATCH_SIZE) return await summarizeChunk(tabs); else one
\* worker per chunk up to CONCURRENCY, each at the top of summarizeChunk
ReqStart ==
    /\ qPhase = "start"
    /\ LET k == IF qN <= LiteBatchSize THEN 1
                ELSE Min(LiteConcurrency, ChunkCount(qN)) IN
        /\ qWorkers' = [w \in 1..k |-> [st |-> BeforeRequest(qImpl), cur |-> w - 1]]
        /\ qIndex' = k
    /\ qPhase' = "mapping"
    /\ UNCHANGED <<qImpl, qN, qLog, reqOthers>>

\* await liteLimiter.acquire() returns
LimiterAcquired(w) ==
    /\ qPhase = "mapping"
    /\ qWorkers[w].st = "acquire"
    /\ qLog' = Append(qLog, LiteCall("acquire", qWorkers[w].cur))
    /\ qWorkers' = [qWorkers EXCEPT ![w].st = "request"]
    /\ UNCHANGED <<qImpl, qN, qPhase, qIndex, reqOthers>>

\* liteModel.generateContent(request) is called
RequestSent(w) ==
    /\ qPhase = "mapping"
    /\ qWorkers[w].st = "request"
    /\ qLog' = Append(qLog, LiteCall("request", qWorkers[w].cur))
    /\ qWorkers' = [qWorkers EXCEPT ![w].st = "awaiting"]
    /\ UNCHANGED <<qImpl, qN, qPhase, qIndex, reqOthers>>

\* The response arrives and the worker pulls the next chunk; the single
\* path has one chunk.
ResponseArrives(w) ==
    /\ qPhase = "mapping"
    /\ qWorkers[w].st = "awaiting"
    /\ LET next == Pull(qIndex, ChunkCount(qN)) IN
        qWorkers' = [qWorkers EXCEPT ![w] =
            IF next.st = "done" THEN next
            ELSE [st |-> BeforeRequest(qImpl), cur |-> next.cur]]
    /\ qIndex' = qIndex + 1
    /\ UNCHANGED <<qImpl, qN, qPhase, qLog, reqOthers>>

ReqReturns ==
    /\ qPhase = "mapping"
    /\ \A w \in DOMAIN qWorkers : qWorkers[w].st = "done"
    /\ qPhase' = "returned"
    /\ UNCHANGED <<qImpl, qN, qIndex, qWorkers, qLog, reqOthers>>

NextReq ==
    \/ ReqStart
    \/ \E w \in DOMAIN qWorkers : LimiterAcquired(w)
    \/ \E w \in DOMAIN qWorkers : RequestSent(w)
    \/ \E w \in DOMAIN qWorkers : ResponseArrives(w)
    \/ ReqReturns

SpecReq == InitReq /\ [][NextReq]_vars

\* C28: every request to the lite model has, earlier in the order of the
\* calls, an acquire of the limiter made for the same chunk.
C28_RequestAfterOwnAcquire ==
    \A j \in DOMAIN qLog :
        qLog[j].op = "request" =>
            \E i \in 1..(j - 1) : qLog[i] = LiteCall("acquire", qLog[j].chunk)



\* ---------------------------------------------------------------------------
\* The exclusion list of a run (background.js:4-5, 25-45, 69-101): the global
\* excludedDomains is assigned by loadExcludedDomains at the start of every
\* run and read by isUrlExcluded at lines 109, 148 and 588 of the run. The
\* COLLECT_TABS handler starts a run on every message, so runs may overlap.
\* ---------------------------------------------------------------------------

Runs == {1, 2}

RuleDomains == {"a.com", "b.com"}

overlapOthers == <<pipelineVars, poolVars, writerVars, twiceVars, liteVars, searchVars,
                   injectVars, titleVars, reqVars, rejectVars, preVars>>

InitOverlap ==
    /\ IdlePipeline
    /\ IdlePool
    /\ IdleWriters
    /\ IdleTwice
    /\ IdleLite
    /\ IdleSearch
    /\ IdleInject
    /\ IdleTitles
    /\ IdleReq
    /\ IdleRejects
    /\ IdlePre
    /\ oStore \in SUBSET RuleDomains
    /\ oDomains = oStore
    /\ oPc = [r \in Runs |-> "idle"]
    /\ oLoaded = [r \in Runs |-> <<>>]
    /\ oUsed = [r \in Runs |-> {}]

\* The settings page adds a rule to the store excluded_urls or deletes one.
RuleChanged(d) ==
    /\ oStore' = IF d \in oStore THEN oStore \ {d} ELSE oStore \cup {d}
    /\ UNCHANGED <<oDomains, oPc, oLoaded, oUsed, overlapOthers>>

\* COLLECT_TABS arrives: collectAndSummarizeAllTabs() is called and awaits
\* loadExcludedDomains()
OverlapRunStarts(r) ==
    /\ oPc[r] = "idle"
    /\ oPc' = [oPc EXCEPT ![r] = "loading"]
    /\ UNCHANGED <<oStore, oDomains, oLoaded, oUsed, overlapOthers>>

\* excludedDomains = domains; or, in the catch, excludedDomains = []
LoadSettles(r, ok) ==
    /\ oPc[r] = "loading"
    /\ LET list == IF ok THEN oStore ELSE {} IN
        /\ oDomains' = list
        /\ oLoaded' = [oLoaded EXCEPT ![r] = <<list>>]
    /\ oPc' = [oPc EXCEPT ![r] = "listing"]
    /\ UNCHANGED <<oStore, oUsed, overlapOthers>>

\* A check of the run reads the global and the run moves on.
ReadList(r, from, to) ==
    /\ oPc[r] = from
    /\ oUsed' = [oUsed EXCEPT ![r] = @ \cup {oDomains}]
    /\ oPc' = [oPc EXCEPT ![r] = to]
    /\ UNCHANGED <<oStore, oDomains, oLoaded, overlapOthers>>

\* allTabs.filter(... !isUrlExcluded(url)), then the fetches begin or, with
\* no injectable tab, the run returns
ListOpenTabs(r, any) == ReadList(r, "listing", IF any THEN "fetching" ELSE "ended")

\* After the fetches: no valid tab and the run returns,
NoValidTab(r) ==
    /\ oPc[r] = "fetching"
    /\ oPc' = [oPc EXCEPT ![r] = "ended"]
    /\ UNCHANGED <<oStore, oDomains, oLoaded, oUsed, overlapOthers>>

\* or historicalTabs.filter(t => !isUrlExcluded(t.url))
FilterHistory(r) == ReadList(r, "fetching", "saving")

\* saveAISummaries: if (isUrlExcluded(url)) in the loop of the puts
SaveChecksUrl(r) == ReadList(r, "saving", "ended")

NextOverlap ==
    \/ \E d \in RuleDomains : RuleChanged(d)
    \/ \E r \in Runs : OverlapRunStarts(r)
    \/ \E r \in Runs, ok \in BOOLEAN : LoadSettles(r, ok)
    \/ \E r \in Runs, any \in BOOLEAN : ListOpenTabs(r, any)
    \/ \E r \in Runs : NoValidTab(r)
    \/ \E r \in Runs : FilterHistory(r)
    \/ \E r \in Runs : SaveChecksUrl(r)

SpecOverlap == InitOverlap /\ [][NextOverlap]_vars

\* C29: every check a run makes reads the list that the run's own load
\* assigned at its start.
C29_ListFixedDuringRun ==
    \A r \in Runs : \A list \in oUsed[r] : oLoaded[r] = <<list>>



\* ---------------------------------------------------------------------------
\* The records of the store rejected_tabs (background.js:340-345, 403-465):
\* every failed fetch, of any run, calls saveRejectedTab(tab.url, reason),
\* which puts {url, reason, timestamp} into a store whose keyPath is "url".
\* The creation of the store is in SaveRejectedTab above.
\* ---------------------------------------------------------------------------

MaxClock == 3

RejectedUrls == {"u1", "u2"}

rejectOthers == <<pipelineVars, poolVars, writerVars, twiceVars, liteVars, searchVars,
                  injectVars, titleVars, reqVars, overlapVars, preVars>>

\* {url, reason, timestamp: new Date().toISOString()}
RejectionRecord(u, t) == [url |-> u, reason |-> "content_script_failed", timestamp |-> t]

\* store.put(record) on a store with keyPath "url": the record replaces the
\* one stored under the same url.
PutByUrl(store, rec) == {r \in store : r.url # rec.url} \cup {rec}

InitRejects ==
    /\ IdlePipeline
    /\ IdlePool
    /\ IdleWriters
    /\ IdleTwice
    /\ IdleLite
    /\ IdleSearch
    /\ IdleInject
    /\ IdleTitles
    /\ IdleReq
    /\ IdleOverlap
    /\ IdlePre
    /\ jClock = 0
    /\ jStore = {}
    /\ jWritten = {}

ClockAdvances ==
    /\ jClock < MaxClock
    /\ jClock' = jClock + 1
    /\ UNCHANGED <<jStore, jWritten, rejectOthers>>

\* The fetch of url u fails, in this run or a later one, and the put of
\* saveRejectedTab completes.
RejectionSaved(u) ==
    /\ jStore' = PutByUrl(jStore, RejectionRecord(u, jClock))
    /\ jWritten' = jWritten \cup {RejectionRecord(u, jClock)}
    /\ UNCHANGED <<jClock, rejectOthers>>

NextRejects ==
    \/ ClockAdvances
    \/ \E u \in RejectedUrls : RejectionSaved(u)

SpecRejects == InitRejects /\ [][NextRejects]_vars

\* C30: every record saveRejectedTab has written is in the store as it was
\* written.
C30_RecordsAppendOnly == jWritten \subseteq jStore



\* ---------------------------------------------------------------------------
\* Claims about the catalog after overlapping runs
\* ---------------------------------------------------------------------------

\* Every writer has left saveAISummaries.
WritersOver == \A w \in Writers : wPc[w] \in {"done", "failed"}

\* The tabs whose sessionId is the id of no stored session.
DanglingTabs == {t \in tabsStore : \A s \in sessionsStore : s.id # t.sessionId}

\* C31: when the overlapping runs are over, the sessionId of every stored tab
\* is the id of a stored session.
C31_MembershipRefersToGroup == WritersOver => DanglingTabs = {}



\* ---------------------------------------------------------------------------
\* Claims about the order of the steps of saveAISummaries
\* ---------------------------------------------------------------------------

\* The result entries the loop puts: a tab_id with a title, not excluded.
Upserted(r) == r.tab_id # "" /\ HasTitle(r.tab_id) /\ ~isUrlExcluded(r.tab_id)

\* C32: when the removal of the empty sessions starts, the tab of every
\* result entry the run puts is in the store, and from then on the run puts
\* no tab.
C32_CleanupAfterUpserts ==
    [][/\ (pc = "resolve" /\ pc' = "notify") =>
            \A i \in DOMAIN aiResults :
                Upserted(aiResults[i]) =>
                    \E t \in tabsStore : t.url = aiResults[i].tab_id
       /\ pc \in {"notify", "done"} => tabsStore' = tabsStore]_vars

C32_Witness ==
    /\ pc = "notify"
    /\ Len(aiResults) >= 2
    /\ \E i \in DOMAIN aiResults :
        /\ Upserted(aiResults[i])
        /\ \A t \in pre.tabs : t.url # aiResults[i].tab_id



\* ---------------------------------------------------------------------------
\* Claims about the cursor of processWithConcurrency
\* ---------------------------------------------------------------------------

\* C33: when processWithConcurrency returns, mapper was called once for every
\* item, position i of results holds the result of item i and of no other,
\* and no fetch is in flight.
C33_EachSourceOnceInPlace ==
    poolPhase = "returned" =>
        /\ \A i \in 0..(nItems - 1) :
            /\ fetchCount[i] = 1
            /\ storedFrom[i] = {i}
            /\ results[i] # "empty"
        /\ \A w \in DOMAIN workers : workers[w].st = "done"

\* The pool returned after several workers shared the cursor over more items
\* than workers, and a fetch failed.
C33_Witness ==
    /\ poolPhase = "returned"
    /\ nItems > concurrency
    /\ concurrency > 1
    /\ \E i \in DOMAIN results : results[i] = "null"



\* ---------------------------------------------------------------------------
\* The RateLimiter under the scheduling of the event loop: a callback that
\* is ready runs, a timer that is due fires, and time passes. The calls of
\* acquire() stop at MaxTime; time goes on while a sleeper waits.
\* ---------------------------------------------------------------------------

AcquireInTime(c) == now < MaxTime /\ Acquire(c)

\* Date.now() advances.
TimePasses ==
    /\ \/ now < MaxTime
       \/ \E c \in Callers : acqState[c] = "sleeping" /\ now < wakeAt[c]
    /\ now' = now + 1
    /\ UNCHANGED <<timestamps, mutex, acqState, wakeAt, granted>>
    /\ UNCHANGED <<impl, maxTokens, bgVars, dbVars, runVars, restVars>>

NextRLFair ==
    \/ \E c \in Callers : AcquireInTime(c)
    \/ \E c \in Callers : EnterLoop(c)
    \/ \E c \in Callers : WakeUp(c)
    \/ TimePasses

SpecRLFair ==
    /\ InitRL
    /\ [][NextRLFair]_vars
    /\ \A c \in Callers : WF_vars(EnterLoop(c)) /\ WF_vars(WakeUp(c))
    /\ WF_vars(TimePasses)

\* acquire() of c returns in this step.
Returns(c) == acqState[c] # "idle" /\ acqState'[c] = "idle"

\* C34: every acquire() call returns; a caller that finds the window full
\* sleeps until the oldest reservation expires; and the caller that is
\* granted is the one that called first among those waiting.
C34_AcquireReturnsInOrder ==
    /\ \A c \in Callers : (acqState[c] # "idle") ~> (acqState[c] = "idle")
    /\ [][\A c \in Callers :
            /\ Returns(c) => Head(mutex) = c
            /\ (acqState'[c] = "sleeping" /\ timestamps' # <<>>) =>
                   wakeAt'[c] >= timestamps'[1] + windowMs]_vars

\* Every caller was granted, the last one after the window had been full.
C34_Witness ==
    /\ Len(granted) >= NumCallers
    /\ \A c \in Callers : acqState[c] = "idle"
    /\ granted[Len(granted)] >= granted[1] + windowMs



\* ---------------------------------------------------------------------------
\* Claims about the sections of the prompt
\* ---------------------------------------------------------------------------

\* The positions in bTabs of the tabs whose block is in the prompt.
IncludedTabs == Range(built.included)

SameSection(i, j) == (bTabs[i].source = "history") <=> (bTabs[j].source = "history")

\* totalTokens when the section of the current tabs begins.
BeforeCurrent ==
    LET st0 == [total |-> TemplateTokens, count |-> 0, included |-> <<>>, cuts |-> <<>>,
                  ok |-> TRUE]
    IN  IF impl = "firebase_ai"
        THEN AppendSection(st0, HistoryTabs(bTabs), HistoryHeaderTokens, maxTokens)
        ELSE AppendCatalog(st0, HistoryTabs(bTabs), maxTokens)

\* C35: in a section no tab is included after one that was not, and a
\* section whose header does not fit has no tab in the prompt.
C35_SectionStopsAtFirstMisfit ==
    bPhase # "input" =>
        /\ \A i, j \in DOMAIN bTabs :
              (i < j /\ SameSection(i, j) /\ j \in IncludedTabs) => i \in IncludedTabs
        /\ BeforeCurrent.total + NewHeaderTokens > maxTokens =>
              \A i \in DOMAIN bTabs : bTabs[i].source # "history" => i \notin IncludedTabs
        /\ (impl = "firebase_ai" /\ TemplateTokens + HistoryHeaderTokens > maxTokens) =>
              \A i \in DOMAIN bTabs : bTabs[i].source = "history" => i \notin IncludedTabs

\* The wrapper of a tab did not fit, and a later tab of its section, which
\* would have fitted whole, is not in the prompt.
C35_Witness ==
    /\ bPhase = "built"
    /\ \E i, j \in DOMAIN bTabs :
        /\ i < j
        /\ SameSection(i, j)
        /\ i \notin IncludedTabs
        /\ j \notin IncludedTabs
        /\ built.total + bTabs[i].wrapper > maxTokens
        /\ built.total + bTabs[j].wrapper + bTabs[j].body <= maxTokens


\* The wrapper cost of the tab with url u of the list.
WrapperOf(u) == bTabs[u].wrapper

\* C36: a tab whose content was cut got exactly the tokens left after the
\* running total and its wrapper; the total is then the budget, the tab is
\* the last of the prompt and nothing was added after it.
C36_CutFillsBudget ==
    bPhase # "input" =>
        \A k \in DOMAIN built.cuts :
            LET c == built.cuts[k] IN
            /\ c.len = maxTokens - c.before - WrapperOf(c.url)
            /\ c.before + WrapperOf(c.url) + c.len = maxTokens
            /\ built.total = maxTokens
            /\ built.included[Len(built.included)] = c.url
            /\ Len(built.cuts) = 1

\* A history tab was cut while current tabs were waiting for their section.
C36_Witness ==
    /\ bPhase = "built"
    /\ built.cuts # <<>>
    /\ built.cuts[1].len > 0
    /\ bTabs[built.cuts[1].url].source = "history"
    /\ CurrentTabs(bTabs) # <<>>



\* ---------------------------------------------------------------------------
\* The pre-summarization step of a run (background.js:150-171) and the merge
\* that follows it (176-196): summarizeTabsLiteBatch is called in a try whose
\* catch only logs; a tab gets the summary as its content when the summary
\* is a non-empty string.
\* ---------------------------------------------------------------------------

preOthers == <<pipelineVars, poolVars, writerVars, twiceVars, liteVars, searchVars,
               injectVars, titleVars, reqVars, overlapVars, rejectVars>>

PreUrls == {"u1", "u2", "u3"}

\* What summarizeTabsLiteBatch gives per url: no item, an item with an empty
\* summary, an item with a summary. "zz" is a url that was not asked for.
LiteOrder == <<"u1", "u2", "u3", "zz">>

LiteItems(f) ==
    LET us == SelectSeq(LiteOrder, LAMBDA u : f[u] # "none")
    IN  [i \in DOMAIN us |-> [url |-> us[i], summary |-> f[us[i]]]]

LiteOutcomes ==
    {[kind |-> "threw", items |-> <<>>]} \cup
    {[kind |-> "returned", items |-> LiteItems(f)] :
        f \in [Range(LiteOrder) -> {"none", "", "s"}]}

HistoryTab(u) == [title |-> "Old", url |-> u, content |-> "old", source |-> "history"]

HasSummary_Any(items) == {items[i].url : i \in DOMAIN items}

\* summaryByUrl[item.url] = item.summary || ''; s && s.length > 0
HasSummary(items) == {items[i].url : i \in {j \in DOMAIN items : items[j].summary # ""}}

InitPre ==
    /\ IdlePipeline
    /\ IdlePool
    /\ IdleWriters
    /\ IdleTwice
    /\ IdleLite
    /\ IdleSearch
    /\ IdleInject
    /\ IdleTitles
    /\ IdleReq
    /\ IdleOverlap
    /\ IdleRejects
    /\ pPc = "start"
    /\ \E V \in SUBSET PreUrls : V # {} /\ pValid = [i \in DOMAIN SeqOf(V) |-> FreshTab(SeqOf(V)[i])]
    /\ \E H \in SUBSET {"u1"} : pHist = [i \in DOMAIN SeqOf(H) |-> HistoryTab(SeqOf(H)[i])]
    /\ pLite = [kind |-> "none", items |-> <<>>]
    /\ pCurrent = <<>>
    /\ pCombined = <<>>

\* await summarizeTabsLiteBatch(toSummarize) settles; summarizedCurrentTabs
PreSummarize(out) ==
    /\ pPc = "start"
    /\ pLite' = out
    /\ pCurrent' = Summarized(pValid, pHist, HasSummary(out.items))
    /\ pPc' = "summarized"
    /\ UNCHANGED <<pValid, pHist, pCombined, preOthers>>

LiteReturned == \E out \in LiteOutcomes : out.kind = "returned" /\ PreSummarize(out)

LiteThrew == \E out \in LiteOutcomes : out.kind = "threw" /\ PreSummarize(out)

\* byUrl, combinedTabs
MergeAfterPre ==
    /\ pPc = "summarized"
    /\ pCombined' = Merge(pHist, pCurrent)
    /\ pPc' = "merged"
    /\ UNCHANGED <<pValid, pHist, pLite, pCurrent, preOthers>>

NextPre == LiteReturned \/ LiteThrew \/ MergeAfterPre

SpecPre == InitPre /\ [][NextPre]_vars

\* The fresh urls for which no item with a non-empty summary came back.
Unsummarized ==
    {u \in UrlsOf(pValid) \ UrlsOf(pHist) :
        \A i \in DOMAIN pLite.items :
            pLite.items[i].url = u => pLite.items[i].summary = ""}

\* C37: a fresh tab without a summary, or with an empty one, is in the
\* working set as it was fetched, and the step goes on to the merge also
\* when summarizeTabsLiteBatch failed.
C37_RawContentWithoutSummary ==
    /\ [](pPc = "merged" =>
            \A i \in DOMAIN pValid :
                pValid[i].url \in Unsummarized =>
                    \E j \in DOMAIN pCombined : pCombined[j] = pValid[i])
    /\ [][pPc = "summarized" => pPc' = "merged"]_vars

\* After a failed call every fresh tab is merged raw; or one tab got a
\* summary and another an empty one.
C37_Witness ==
    /\ pPc = "merged"
    /\ Len(pValid) >= 2
    /\ \/ pLite.kind = "threw"
       \/ /\ \E i \in DOMAIN pLite.items : pLite.items[i].summary = ""
                                            /\ pLite.items[i].url \in UrlsOf(pValid)
          /\ \E j \in DOMAIN pCombined : pCombined[j].content = "lite"



\* ---------------------------------------------------------------------------
\* Claims about result entries for urls the run did not provide
\* ---------------------------------------------------------------------------

\* Writer 1 saved alone: writer 2 has not begun.
SavedAlone == wPc[1] = "done" /\ wPc[2] = "delete"

\* The rows of writer w for a url that is not in its tabTitles.
SkippedRows(w) ==
    {r \in Range(wResults[w]) : r.tab_id \notin WriterTitles}

\* The sessions writer w created: ids from 3 on are new.
CreatedBy(w) == {p \in wResolved[w] : p.id >= 3}

\* C38: no tab is ever stored under a url that is not in tabTitles, and
\* after a save a session created for a skipped row only is not in the store.
C38_SkippedEntryLeavesNothing ==
    /\ \A t \in tabsStore : t.url \in WriterTitles
    /\ SavedAlone =>
          \A r \in SkippedRows(1) :
              \A p \in CreatedBy(1) :
                  p.name = r.session_name =>
                      \A g \in sessionsStore : g.id # p.id

\* A save whose only row was skipped and had made a new session.
C38_Witness ==
    /\ SavedAlone
    /\ SkippedRows(1) # {}
    /\ CreatedBy(1) # {}



\* ---------------------------------------------------------------------------
\* Claims about a run with nothing to process
\* ---------------------------------------------------------------------------

\* No tab is eligible, or every fetch has failed.
NothingFetched ==
    /\ pc \notin {"idle", "collect", "failed"}
    /\ \/ injectableTabs = {}
       \/ \A u \in injectableTabs : fetchLog[u] = "failed"

\* C39: a run with no eligible tab, or whose fetches all failed, has ended
\* without a request to the classifier and with the sessions and tabs it found.
C39_NothingFetchedNothingChanged ==
    NothingFetched =>
        /\ pc = "ended"
        /\ callLog = <<>>
        /\ combinedTabs = <<>>
        /\ tabsStore = pre.tabs
        /\ sessionsStore = pre.sessions

\* Tabs were open and stored, and every fetch failed.
C39_Witness ==
    /\ NothingFetched
    /\ Cardinality(injectableTabs) >= 2
    /\ tabsStore # {}
    /\ pendingRejects = {}



\* C40: the array searchRelevantTabs returns has no two items with the same
\* url.
C40_NoDuplicateIdentity ==
    sPhase = "returned" =>
        \A i, j \in DOMAIN sOut : sOut[i].url = sOut[j].url => i = j

=============================================================================
